---- MODULE Spec2Model ----
(***************************************************************************)
(* Buffer pool manager, LRU-K replacer and disk of the BusTub-derived      *)
(* storage engine.  Every public pool operation takes the pool mutex as    *)
(* its first statement and holds it until it returns, and waits on the     *)
(* future of every disk request it schedules before it goes on, so one     *)
(* operation is one atomic action.                                         *)
(***************************************************************************)
EXTENDS Integers, Sequences, FiniteSets, TLC

\* ---------------------------------------------------------------- bounds
PoolSize    == 2    \* pool_size: number of frames
K           == 2    \* replacer_k
MaxPageId   == 3    \* page ids 0 .. MaxPageId-1 are used
MaxTime     == 5    \* largest timestamp the clock hands out
MaxData     == 1    \* page contents 0 (zeroed) .. MaxData
MaxRestarts == 1    \* times the pool is destroyed and reopened
MaxDiskTime == 3    \* largest timestamp when page contents are followed
MaxEvictTime == 4   \* largest timestamp when evicted contents are followed
MaxWrap     == 1    \* Evict is not called with curr_size_ at or below -MaxWrap
MaxRequests == 3    \* requests passed to Schedule
MaxGuards   == 3    \* page guard objects
HashWidth   == 6    \* bits of a hash value (32 in the source)
HTABLE_HEADER_MAX_DEPTH == 4     \* 9 in the source
HTABLE_DIRECTORY_MAX_DEPTH == 2  \* 9 in the source
header_max_depth_ == 4     \* the index's header_max_depth
directory_max_depth_ == 2  \* the index's directory_max_depth
bucket_max_size_ == 2      \* the index's bucket_max_size
MaxKey      == 3    \* keys 0 .. MaxKey, and one more that hashes as key 2
                    \* does in the low directory_max_depth_ bits
MaxValue    == 0    \* values 0 .. MaxValue
MaxIndexPages == 6  \* Insert is not called once this many pages exist
MaxDirectories == 2  \* directories entered in a header page by itself
MaxDepthWrap == 1   \* no call on the index once a local depth is more
                    \* than this far below 0
MaxThreads == 3     \* threads calling the pool at the same time

INVALID_PAGE_ID == -1
NoFrame         == -1
UINT8_SIZE      == 256   \* values of a uint8_t

Frames  == 0 .. (PoolSize - 1)
PageIds == 0 .. (MaxPageId - 1)
Data    == 0 .. MaxData
RequestIds == 1 .. MaxRequests
GuardIds == 1 .. MaxGuards
Keys == (0 .. MaxKey) \cup {2 + 2 ^ directory_max_depth_}
Values == 0 .. MaxValue

VARIABLES
  pages,         \* pages_[f]: page_id_, pin_count_, is_dirty_, data_
  page_table,    \* page_table_: page id -> frame id, for resident pages
  free_list,     \* free_list_
  next_page_id,  \* next_page_id_
  replacer,      \* *replacer_: node_store_, replacer_, inf_replacer_, curr_size_
  disk,          \* the disk manager's file: page id -> content
  clock,         \* last value read from the clock
  crashed,       \* the process has aborted
  restarts,      \* number of times the pool was destroyed and reopened
  durable,       \* ghost: pages allocated by NewPage, flushed with a pattern
                 \*        when unpinned, and not rewritten on disk since
  saved,         \* ghost: page id -> the pattern the page held when it was
                 \*        last unpinned and left dirty (0: none to follow)
  last,          \* the last call: operation, arguments, result
  request_queue, \* DiskScheduler::request_queue_
  buffers,       \* the data_ buffer each request points at
  callbacks,     \* times set_value(true) was called on each request's promise
  worker,        \* the background thread: its position and its request
  enqueued,      \* ghost: the requests in the order Schedule enqueued them
  performed,     \* ghost: the requests in the order of their disk operation
  destructor,    \* ~DiskScheduler: "alive", "joining" or "returned"
  guards,        \* the page guard objects: kind, bpm_, page_, is_dirty_
  latch,         \* rwlatch_ of each frame: readers and writer holding it
  htable,        \* the hash index: header_page_ and the pages it made
  stored,        \* ghost: the pairs whose Insert returned true and whose
                 \*        key was not removed since
  header_page,   \* a header page by itself, and the last call on it
  mutexes        \* the pool's and the replacer's mutex, and the threads

guardVars == <<guards, latch>>

indexVars == <<htable, stored>>

otherVars == <<indexVars, header_page, mutexes>>

schedVars == <<request_queue, buffers, callbacks, worker, enqueued, performed,
               destructor>>

poolVars == <<pages, page_table, free_list, next_page_id, replacer, disk>>
vars == <<pages, page_table, free_list, next_page_id, replacer, disk,
          clock, crashed, restarts, durable, saved, last,
          request_queue, buffers, callbacks, worker, enqueued, performed,
          destructor, guards, latch, htable, stored, header_page,
          mutexes>>

\* ------------------------------------------------------------- utilities
Min(S) == CHOOSE x \in S : \A y \in S : x <= y

Range(f) == { f[x] : x \in DOMAIN f }

SeqToSet(s) == { s[i] : i \in 1 .. Len(s) }

\* std::unordered_map::insert: no effect when the key is already present
MapInsert(m, key, val) ==
  IF key \in DOMAIN m THEN m
  ELSE [x \in DOMAIN m \cup {key} |-> IF x = key THEN val ELSE m[x]]

\* std::unordered_map::erase(key)
MapErase(m, key) == [x \in DOMAIN m \ {key} |-> m[x]]

\* ------------------------------------------------------------- LRUKNode
NewNode == [history_ |-> <<>>, is_evictable_ |-> FALSE]

\* cur_size_ always equals the length of history_
AddAcceesTime(node, t) ==
  LET h == Append(node.history_, t)
  IN  [node EXCEPT !.history_ = IF Len(node.history_) < K THEN h ELSE Tail(h)]

ClearAcceesTime(node) == [node EXCEPT !.history_ = <<>>]

GetLatestAccessTime(node) ==
  IF Len(node.history_) = 0 THEN 0 ELSE Head(node.history_)

GetNumAceessTime(node) == Len(node.history_)

\* ---------------------------------------------------------- LRUKReplacer
\* Every operation yields the set of its possible outcomes.  An outcome
\* with crash = TRUE is an abort of the process.  Dereferencing or erasing
\* an end() iterator is undefined: the build either faults or goes on
\* with the container unchanged.
NewReplacer ==
  [node_store_ |-> <<>>, replacer_ |-> {}, inf_replacer_ |-> {}, curr_size_ |-> 0]

Undefined(R) == { [R |-> R, crash |-> FALSE], [R |-> R, crash |-> TRUE] }

Defined(R) == { [R |-> R, crash |-> FALSE] }

Abort(R) == { [R |-> R, crash |-> TRUE] }

RecordAccess(R, frame_id, t) ==
  IF frame_id \notin Frames THEN Abort(R)
  ELSE IF frame_id \in DOMAIN R.node_store_ THEN
    LET cur_node == R.node_store_[frame_id]
        added == [R EXCEPT !.node_store_[frame_id] = AddAcceesTime(cur_node, t)]
    IN  IF cur_node.is_evictable_ /\ GetNumAceessTime(cur_node) = K - 1
        THEN IF frame_id \in R.inf_replacer_
             THEN Defined([added EXCEPT !.inf_replacer_ = @ \ {frame_id}])
             ELSE Undefined(added)
        ELSE Defined(added)
  ELSE Defined([R EXCEPT !.node_store_ =
                  MapInsert(@, frame_id, AddAcceesTime(NewNode, t))])

SetEvictable(R, frame_id, set_evictable) ==
  IF frame_id \notin Frames \/ frame_id \notin DOMAIN R.node_store_ THEN Abort(R)
  ELSE
    LET cur_node == R.node_store_[frame_id]
    IN  IF set_evictable THEN
          IF frame_id \notin R.replacer_
          THEN Defined([R EXCEPT
                 !.replacer_ = @ \cup {frame_id},
                 !.inf_replacer_ = IF GetNumAceessTime(cur_node) < K
                                   THEN @ \cup {frame_id} ELSE @,
                 !.node_store_[frame_id].is_evictable_ = TRUE,
                 !.curr_size_ = @ + 1])
          ELSE Defined(R)
        ELSE
          IF frame_id \in R.replacer_
          THEN LET done == [R EXCEPT
                      !.replacer_ = @ \ {frame_id},
                      !.inf_replacer_ = IF GetNumAceessTime(cur_node) < K
                                        THEN @ \ {frame_id} ELSE @,
                      !.node_store_[frame_id].is_evictable_ = FALSE,
                      !.curr_size_ = @ - 1]
               IN  IF GetNumAceessTime(cur_node) < K /\ frame_id \notin R.inf_replacer_
                   THEN Undefined(done)
                   ELSE Defined(done)
          ELSE Defined(R)

\* curr_size_ is a size_t: the model keeps the signed representative of
\* its 64-bit value, so -1 stands for 2^64 - 1.
Remove(R, frame_id) ==
  IF frame_id \notin Frames THEN Abort(R)
  ELSE IF frame_id \in R.replacer_ THEN
    LET cur_node == R.node_store_[frame_id]
        done == [R EXCEPT
                   !.curr_size_ = @ - 1,
                   !.replacer_ = @ \ {frame_id},
                   !.inf_replacer_ = IF frame_id \in @ /\ frame_id > 0
                                     THEN @ \ {frame_id} ELSE @,
                   !.node_store_[frame_id] =
                       [ClearAcceesTime(cur_node) EXCEPT !.is_evictable_ = FALSE]]
    IN  IF frame_id \in R.inf_replacer_ THEN Defined(done) ELSE Undefined(done)
  ELSE Defined(R)

\* The scan keeps the first frame whose time is strictly smaller, so it
\* ends on a frame of minimal time; which one among equal times depends
\* on the iteration order of the set.
EvictCandidates(R) ==
  LET scanned == IF R.inf_replacer_ # {} THEN R.inf_replacer_ ELSE R.replacer_
      times == { GetLatestAccessTime(R.node_store_[f]) : f \in scanned }
  IN  { f \in scanned : GetLatestAccessTime(R.node_store_[f]) = Min(times) }

EvictFrame(R, curframe) ==
  LET remnode == R.node_store_[curframe]
      done == [R EXCEPT
                 !.inf_replacer_ = IF GetNumAceessTime(remnode) < K
                                   THEN @ \ {curframe} ELSE @,
                 !.replacer_ = @ \ {curframe},
                 !.curr_size_ = @ - 1,
                 !.node_store_[curframe] =
                     [ClearAcceesTime(remnode) EXCEPT !.is_evictable_ = FALSE]]
      defined == /\ GetNumAceessTime(remnode) < K => curframe \in R.inf_replacer_
                 /\ curframe \in R.replacer_
  IN  { [R |-> o.R, crash |-> o.crash, ok |-> TRUE, frame |-> curframe] :
          o \in IF defined THEN Defined(done) ELSE Undefined(done) }

Evict(R) ==
  IF R.curr_size_ = 0
  THEN { [R |-> R, crash |-> FALSE, ok |-> FALSE, frame |-> NoFrame] }
  ELSE IF EvictCandidates(R) = {}
  THEN { [R |-> R, crash |-> TRUE, ok |-> FALSE, frame |-> NoFrame] }
  ELSE UNION { EvictFrame(R, f) : f \in EvictCandidates(R) }

Size(R) == R.curr_size_

\* ----------------------------------------------------- BufferPoolManager
\* The pool as one value, so that an operation is a function from the pool
\* before the call to the set of its possible outcomes.
PoolState ==
  [pages_ |-> pages, page_table_ |-> page_table, free_list_ |-> free_list,
   next_page_id_ |-> next_page_id, replacer_ |-> replacer, disk |-> disk]

NewPool(d) ==
  [pages_ |-> [f \in Frames |-> [page_id_ |-> INVALID_PAGE_ID, pin_count_ |-> 0,
                                 is_dirty_ |-> FALSE, data_ |-> 0]],
   page_table_ |-> <<>>,
   free_list_ |-> [i \in 1 .. PoolSize |-> i - 1],
   next_page_id_ |-> 0,
   replacer_ |-> NewReplacer,
   disk |-> d]

\* The result of a call: the pool after it, whether the process aborted,
\* the boolean or frame returned, the branch taken, and for an eviction
\* the victim frame with the pin count it had.
Outcome(P, crash, ok, frame, path, victim, victim_pin) ==
  [P |-> P, crash |-> crash, ok |-> ok, frame |-> frame, path |-> path,
   victim |-> victim, victim_pin |-> victim_pin]

Crash(P) == Outcome(P, TRUE, FALSE, NoFrame, "crash", NoFrame, 0)

\* Schedule a write of the frame and wait on its future
DiskWrite(P, f) ==
  [P EXCEPT !.disk[P.pages_[f].page_id_] = P.pages_[f].data_]

\* Schedule a read into the frame and wait on its future
DiskRead(P, f) ==
  [P EXCEPT !.pages_[f].data_ = P.disk[P.pages_[f].page_id_]]

\* Mutant: the victim's pin count and dirty flag are left as they were
InstallInVictim_NoReset(P, f, page_id) ==
  LET written == IF P.pages_[f].is_dirty_ THEN DiskWrite(P, f) ELSE P
      erased == [written EXCEPT !.page_table_ = MapErase(@, P.pages_[f].page_id_)]
      reset == [erased EXCEPT !.pages_[f].data_ = 0]
  IN  [reset EXCEPT !.page_table_ = MapInsert(@, page_id, f),
                    !.pages_[f].page_id_ = page_id]

\* Mutant: the victim's page id is left in the page table
InstallInVictim_NoErase(P, f, page_id) ==
  LET written == IF P.pages_[f].is_dirty_ THEN DiskWrite(P, f) ELSE P
      reset == [written EXCEPT !.pages_[f].data_ = 0,
                               !.pages_[f].is_dirty_ = FALSE,
                               !.pages_[f].pin_count_ = 0]
  IN  [reset EXCEPT !.page_table_ = MapInsert(@, page_id, f),
                    !.pages_[f].page_id_ = page_id]

\* Eviction protocol shared by NewPage and FetchPage: write back when
\* dirty, erase the victim's page id, reset the frame, install page_id.
InstallInVictim(P, f, page_id) ==
  LET written == IF P.pages_[f].is_dirty_ THEN DiskWrite(P, f) ELSE P
      erased == [written EXCEPT !.page_table_ = MapErase(@, P.pages_[f].page_id_)]
      reset == [erased EXCEPT !.pages_[f].data_ = 0,
                              !.pages_[f].is_dirty_ = FALSE,
                              !.pages_[f].pin_count_ = 0]
  IN  [reset EXCEPT !.page_table_ = MapInsert(@, page_id, f),
                    !.pages_[f].page_id_ = page_id]

InstallInFree(P, page_id) ==
  LET cur_frame == Head(P.free_list_)
  IN  [P EXCEPT !.free_list_ = Tail(@),
                !.page_table_ = MapInsert(@, page_id, cur_frame),
                !.pages_[cur_frame].page_id_ = page_id]

\* Mutant: the access is recorded but the frame is not pinned
PinAndRecord_NoPin(P, f, t, path, victim, victim_pin) ==
  { IF ra.crash THEN Crash(P)
    ELSE Outcome([P EXCEPT !.replacer_ = ra.R],
                 FALSE, TRUE, f, path, victim, victim_pin)
    : ra \in RecordAccess(P.replacer_, f, t) }

\* pin_count_++ and replacer_->RecordAccess(cur_frame)
PinAndRecord(P, f, t, path, victim, victim_pin) ==
  { IF ra.crash THEN Crash(P)
    ELSE Outcome([P EXCEPT !.replacer_ = ra.R, !.pages_[f].pin_count_ = @ + 1],
                 FALSE, TRUE, f, path, victim, victim_pin)
    : ra \in RecordAccess(P.replacer_, f, t) }

\* Mutant: the page id is allocated before the replacer is asked for a victim
NewPageImpl_AllocatesFirst(P, t) ==
  IF Len(P.free_list_) > 0 THEN
    LET cur_frame == Head(P.free_list_)
        installed == InstallInFree(P, P.next_page_id_)
        allocated == [installed EXCEPT !.next_page_id_ = @ + 1]
    IN  PinAndRecord(allocated, cur_frame, t, "free", NoFrame, 0)
  ELSE
    UNION { IF ev.crash THEN { Crash(P) }
            ELSE IF ~ev.ok THEN { Outcome([P EXCEPT !.next_page_id_ = @ + 1],
                                          FALSE, FALSE, NoFrame, "null", NoFrame, 0) }
            ELSE LET evicted == [P EXCEPT !.replacer_ = ev.R]
                     installed == InstallInVictim(evicted, ev.frame, P.next_page_id_)
                     allocated == [installed EXCEPT !.next_page_id_ = @ + 1]
                 IN  PinAndRecord(allocated, ev.frame, t, "evict", ev.frame,
                                  P.pages_[ev.frame].pin_count_)
            : ev \in Evict(P.replacer_) }

NewPageImpl(P, t) ==
  IF Len(P.free_list_) > 0 THEN
    LET cur_frame == Head(P.free_list_)
        installed == InstallInFree(P, P.next_page_id_)
        allocated == [installed EXCEPT !.next_page_id_ = @ + 1]
    IN  PinAndRecord(allocated, cur_frame, t, "free", NoFrame, 0)
  ELSE
    UNION { IF ev.crash THEN { Crash(P) }
            ELSE IF ~ev.ok THEN { Outcome(P, FALSE, FALSE, NoFrame, "null", NoFrame, 0) }
            ELSE LET evicted == [P EXCEPT !.replacer_ = ev.R]
                     installed == InstallInVictim(evicted, ev.frame, P.next_page_id_)
                     allocated == [installed EXCEPT !.next_page_id_ = @ + 1]
                 IN  PinAndRecord(allocated, ev.frame, t, "evict", ev.frame,
                                  P.pages_[ev.frame].pin_count_)
            : ev \in Evict(P.replacer_) }

FetchPageImpl(P, page_id, t) ==
  IF page_id \in DOMAIN P.page_table_ THEN
    LET cur_frame == P.page_table_[page_id]
    IN  { IF ra.crash THEN Crash(P)
          ELSE Outcome([P EXCEPT !.replacer_ = ra.R], FALSE, TRUE, cur_frame,
                       "hit", NoFrame, 0)
          : ra \in RecordAccess(P.replacer_, cur_frame, t) }
  ELSE IF Len(P.free_list_) > 0 THEN
    LET cur_frame == Head(P.free_list_)
        installed == InstallInFree(P, page_id)
        loaded == IF page_id < P.next_page_id_
                  THEN DiskRead(installed, cur_frame) ELSE installed
    IN  PinAndRecord(loaded, cur_frame, t, "free", NoFrame, 0)
  ELSE
    UNION { IF ev.crash THEN { Crash(P) }
            ELSE IF ~ev.ok THEN { Outcome(P, FALSE, FALSE, NoFrame, "null", NoFrame, 0) }
            ELSE LET evicted == [P EXCEPT !.replacer_ = ev.R]
                     installed == InstallInVictim(evicted, ev.frame, page_id)
                     loaded == IF page_id < P.next_page_id_
                               THEN DiskRead(installed, ev.frame) ELSE installed
                     reread == DiskRead(loaded, ev.frame)
                 IN  PinAndRecord(reread, ev.frame, t, "evict", ev.frame,
                                  P.pages_[ev.frame].pin_count_)
            : ev \in Evict(P.replacer_) }

\* Mutant: the pin count is lowered without the test for 0
UnpinPageImpl_NoPinCheck(P, page_id, is_dirty) ==
  IF page_id \in DOMAIN P.page_table_ THEN
    LET cur_frame == P.page_table_[page_id]
        unpinned == [P EXCEPT !.pages_[cur_frame].pin_count_ = @ - 1]
        marks == IF unpinned.pages_[cur_frame].pin_count_ = 0
                 THEN SetEvictable(P.replacer_, cur_frame, TRUE)
                 ELSE Defined(P.replacer_)
    IN  { IF se.crash THEN Crash(P)
          ELSE Outcome([unpinned EXCEPT
                          !.replacer_ = se.R,
                          !.pages_[cur_frame].is_dirty_ = IF is_dirty THEN TRUE ELSE @],
                       FALSE, TRUE, cur_frame, "hit", NoFrame, 0)
          : se \in marks }
  ELSE { Outcome(P, FALSE, FALSE, NoFrame, "absent", NoFrame, 0) }

\* Mutant: the dirty flag is assigned from is_dirty, before the pin test
UnpinPageImpl_DirtyAssign(P, page_id, is_dirty) ==
  IF page_id \in DOMAIN P.page_table_ THEN
    LET cur_frame == P.page_table_[page_id]
        flagged == [P EXCEPT !.pages_[cur_frame].is_dirty_ = is_dirty]
    IN  IF P.pages_[cur_frame].pin_count_ <= 0
        THEN { Outcome(flagged, FALSE, FALSE, cur_frame, "unpinned", NoFrame, 0) }
        ELSE
          LET unpinned == [flagged EXCEPT !.pages_[cur_frame].pin_count_ = @ - 1]
              marks == IF unpinned.pages_[cur_frame].pin_count_ = 0
                       THEN SetEvictable(P.replacer_, cur_frame, TRUE)
                       ELSE Defined(P.replacer_)
          IN  { IF se.crash THEN Crash(P)
                ELSE Outcome([unpinned EXCEPT !.replacer_ = se.R],
                             FALSE, TRUE, cur_frame, "hit", NoFrame, 0)
                : se \in marks }
  ELSE { Outcome(P, FALSE, FALSE, NoFrame, "absent", NoFrame, 0) }

UnpinPageImpl(P, page_id, is_dirty) ==
  IF page_id \in DOMAIN P.page_table_ THEN
    LET cur_frame == P.page_table_[page_id]
    IN  IF P.pages_[cur_frame].pin_count_ <= 0
        THEN { Outcome(P, FALSE, FALSE, cur_frame, "unpinned", NoFrame, 0) }
        ELSE
          LET unpinned == [P EXCEPT !.pages_[cur_frame].pin_count_ = @ - 1]
              marks == IF unpinned.pages_[cur_frame].pin_count_ = 0
                       THEN SetEvictable(P.replacer_, cur_frame, TRUE)
                       ELSE Defined(P.replacer_)
          IN  { IF se.crash THEN Crash(P)
                ELSE Outcome([unpinned EXCEPT
                                !.replacer_ = se.R,
                                !.pages_[cur_frame].is_dirty_ = IF is_dirty THEN TRUE ELSE @],
                             FALSE, TRUE, cur_frame, "hit", NoFrame, 0)
                : se \in marks }
  ELSE { Outcome(P, FALSE, FALSE, NoFrame, "absent", NoFrame, 0) }

\* Mutant: a page that is not dirty is not written
FlushPageImpl_OnlyDirty(P, page_id) ==
  IF page_id \in DOMAIN P.page_table_ THEN
    LET cur_frame == P.page_table_[page_id]
        written == IF P.pages_[cur_frame].is_dirty_ THEN DiskWrite(P, cur_frame) ELSE P
    IN  { Outcome([written EXCEPT !.pages_[cur_frame].is_dirty_ = FALSE],
                  FALSE, TRUE, cur_frame, "hit", NoFrame, 0) }
  ELSE { Outcome(P, FALSE, FALSE, NoFrame, "absent", NoFrame, 0) }

FlushPageImpl(P, page_id) ==
  IF page_id \in DOMAIN P.page_table_ THEN
    LET cur_frame == P.page_table_[page_id]
        written == DiskWrite(P, cur_frame)
    IN  { Outcome([written EXCEPT !.pages_[cur_frame].is_dirty_ = FALSE],
                  FALSE, TRUE, cur_frame, "hit", NoFrame, 0) }
  ELSE { Outcome(P, FALSE, FALSE, NoFrame, "absent", NoFrame, 0) }

\* The loop writes every resident frame under the page id the frame
\* stores; were two frames to store the same id, the later one in the
\* iteration order of page_table_ would win.
FlushAllPagesImpl(P) ==
  LET resident == Range(P.page_table_)
      writers(q) == { f \in resident : P.pages_[f].page_id_ = q }
      disks == { d \in [PageIds -> Data] :
                   \A q \in PageIds :
                     IF writers(q) = {} THEN d[q] = P.disk[q]
                     ELSE d[q] \in { P.pages_[f].data_ : f \in writers(q) } }
  IN  { Outcome([P EXCEPT !.disk = d,
                          !.pages_ = [f \in Frames |->
                             IF f \in resident
                             THEN [P.pages_[f] EXCEPT !.is_dirty_ = FALSE]
                             ELSE P.pages_[f]]],
                FALSE, TRUE, NoFrame, "all", NoFrame, 0)
        : d \in disks }

\* Mutant: a pinned page is deleted like an unpinned one
DeletePageImpl_NoPinCheck(P, page_id) ==
  IF page_id \in DOMAIN P.page_table_ THEN
    LET cur_frame == P.page_table_[page_id]
        erased == [P EXCEPT !.page_table_ = MapErase(@, page_id)]
    IN  { IF rm.crash THEN Crash(P)
          ELSE Outcome([erased EXCEPT
                          !.replacer_ = rm.R,
                          !.free_list_ = Append(@, cur_frame),
                          !.pages_[cur_frame].data_ = 0,
                          !.pages_[cur_frame].is_dirty_ = FALSE,
                          !.pages_[cur_frame].pin_count_ = 0],
                       FALSE, TRUE, cur_frame, "hit", NoFrame, 0)
          : rm \in Remove(P.replacer_, cur_frame) }
  ELSE { Outcome(P, FALSE, TRUE, NoFrame, "absent", NoFrame, 0) }

DeletePageImpl(P, page_id) ==
  IF page_id \in DOMAIN P.page_table_ THEN
    LET cur_frame == P.page_table_[page_id]
    IN  IF P.pages_[cur_frame].pin_count_ > 0
        THEN { Outcome(P, FALSE, FALSE, cur_frame, "pinned", NoFrame, 0) }
        ELSE
          LET erased == [P EXCEPT !.page_table_ = MapErase(@, page_id)]
          IN  { IF rm.crash THEN Crash(P)
                ELSE Outcome([erased EXCEPT
                                !.replacer_ = rm.R,
                                !.free_list_ = Append(@, cur_frame),
                                !.pages_[cur_frame].data_ = 0,
                                !.pages_[cur_frame].is_dirty_ = FALSE,
                                !.pages_[cur_frame].pin_count_ = 0],
                             FALSE, TRUE, cur_frame, "hit", NoFrame, 0)
                : rm \in Remove(P.replacer_, cur_frame) }
  ELSE { Outcome(P, FALSE, TRUE, NoFrame, "absent", NoFrame, 0) }

\* A holder of a pinned page writes a pattern into its buffer
WriteDataImpl(P, page_id, d) ==
  [P EXCEPT !.pages_[P.page_table_[page_id]].data_ = d]

\* ------------------------------------------------------------ page guards
\* A guard object that is not constructed, and a constructed guard of a
\* kind that holds nothing.
NoGuard == [kind |-> "none", bpm_ |-> FALSE, page_ |-> NoFrame, is_dirty_ |-> FALSE]

InertGuard(kind) ==
  [kind |-> kind, bpm_ |-> FALSE, page_ |-> NoFrame, is_dirty_ |-> FALSE]

\* bpm_ != nullptr && page_ != nullptr
Holds(guard) == guard.bpm_ /\ guard.page_ # NoFrame

RLatch(L, f) == [L EXCEPT ![f].readers = @ + 1]

RUnlatch(L, f) == [L EXCEPT ![f].readers = @ - 1]

WLatch(L, f) == [L EXCEPT ![f].writer = TRUE]

WUnlatch(L, f) == [L EXCEPT ![f].writer = FALSE]

\* BasicPageGuard::Drop and ~BasicPageGuard
BasicDrop(S, g) ==
  IF Holds(S.guards[g]) THEN
    LET page_ == S.guards[g].page_
    IN  { [S EXCEPT !.P = o.P,
                    !.crash = o.crash,
                    !.guards[g] = InertGuard(S.guards[g].kind)]
          : o \in UnpinPageImpl(S.P, S.P.pages_[page_].page_id_,
                                S.guards[g].is_dirty_) }
  ELSE { S }

\* Drop and the destructor of a guard of any kind
GuardDropImpl(S, g) ==
  IF Holds(S.guards[g]) THEN
    LET page_ == S.guards[g].page_
        kind == S.guards[g].kind
        unlatched == IF kind = "read" THEN RUnlatch(S.latch, page_)
                     ELSE IF kind = "write" THEN WUnlatch(S.latch, page_)
                     ELSE S.latch
    IN  BasicDrop([S EXCEPT !.latch = unlatched], g)
  ELSE { S }

\* The fields of that are copied into this and that is made null
TakeFields(S, this, that) ==
  [S EXCEPT !.guards[this].bpm_ = S.guards[that].bpm_,
            !.guards[this].page_ = S.guards[that].page_,
            !.guards[this].is_dirty_ = S.guards[that].is_dirty_,
            !.guards[that] = InertGuard(S.guards[that].kind)]

\* BasicPageGuard::operator=(BasicPageGuard &&that)
BasicMoveAssign(S, this, that) ==
  IF this = that THEN { S }
  ELSE { TakeFields(dropped, this, that) : dropped \in BasicDrop(S, this) }

\* The move constructors.  The one of a read or write guard first moves
\* that.guard_ into its own guard_ and then takes the fields of that.
MoveConstructImpl(S, that, this) ==
  LET constructed == [S EXCEPT !.guards[this] = InertGuard(S.guards[that].kind)]
  IN  IF S.guards[that].kind = "basic"
      THEN { TakeFields(constructed, this, that) }
      ELSE { TakeFields(moved, this, that)
             : moved \in BasicMoveAssign(constructed, this, that) }

\* The move assignments
MoveAssignImpl(S, that, this) ==
  IF this = that THEN { S }
  ELSE IF S.guards[that].kind = "basic"
  THEN BasicMoveAssign(S, this, that)
  ELSE UNION { { TakeFields(moved, this, that)
                 : moved \in BasicMoveAssign(dropped, this, that) }
               : dropped \in GuardDropImpl(S, this) }

\* BasicPageGuard(bpm, page), ReadPageGuard(bpm, page) and
\* WritePageGuard(bpm, page) on the frame a pool call returned
ConstructGuard(S, g, kind, f) ==
  [S EXCEPT !.guards[g] = [kind |-> kind, bpm_ |-> TRUE, page_ |-> f,
                           is_dirty_ |-> IF kind = "basic" THEN FALSE
                                         ELSE S.P.pages_[f].is_dirty_],
            !.latch = IF kind = "read" THEN RLatch(@, f)
                      ELSE IF kind = "write" THEN WLatch(@, f)
                      ELSE @]

\* BasicPageGuard::UpgradeRead and UpgradeWrite.  The new guard is built in
\* a local object, the basic guard is made null, and the local is returned
\* by value: the compiler either builds it in the caller's object or moves
\* it there with the move constructor.
UpgradeImpl(S, g, kind, result) ==
  LET local == 0
      withLocal == [S EXCEPT !.guards =
                      [x \in GuardIds \cup {local} |->
                         IF x = local THEN NoGuard ELSE S.guards[x]]]
      guarded_page == ConstructGuard(withLocal, local, kind, S.guards[g].page_)
      nulled == [guarded_page EXCEPT !.guards[g] = InertGuard("basic")]
      elided == [nulled EXCEPT !.guards[result] = nulled.guards[local]]
      Caller(T) == [T EXCEPT !.guards = [x \in GuardIds |-> T.guards[x]]]
  IN  { Caller(elided) }
        \cup { Caller(moved) : moved \in MoveConstructImpl(nulled, local, result) }

\* The guarded accessors of the pool.  Each is `return {this, nullptr};`: the
\* guard is constructed from the pool and a null page, and the pool is not
\* called.  BasicPageGuard(bpm, page) stores the null pointer.  The
\* constructors of the read and the write guard call page->RLatch() or
\* page->WLatch() and page->IsDirty() on the null pointer, which is
\* undefined: the build faults, or goes on with a guard of a null page and
\* whatever was read as its dirty flag.
GuardOfNullPage(S, g, kind) ==
  IF kind = "basic"
  THEN { [S EXCEPT !.guards[g] = [kind |-> "basic", bpm_ |-> TRUE,
                                  page_ |-> NoFrame, is_dirty_ |-> FALSE]] }
  ELSE { [S EXCEPT !.crash = TRUE] }
       \cup { [S EXCEPT !.guards[g] = [kind |-> kind, bpm_ |-> TRUE,
                                       page_ |-> NoFrame, is_dirty_ |-> d]]
              : d \in BOOLEAN }

FetchPageBasic(S, g, page_id) == GuardOfNullPage(S, g, "basic")

FetchPageRead(S, g, page_id) == GuardOfNullPage(S, g, "read")

FetchPageWrite(S, g, page_id) == GuardOfNullPage(S, g, "write")

\* *page_id is left as the caller had it
NewPageGuarded(S, g) == GuardOfNullPage(S, g, "basic")

\* The guards of one index operation.  GetValue, Insert and Remove declare
\* `WritePageGuard directory_guard;`, assign it the temporary that
\* FetchPageWrite returns, or the one that UpgradeWrite of the guard of
\* NewPageGuarded returns, read the page through As or AsMut, obtain
\* bucket_guard the same way, and destroy both guards at their return.
directory_guard == 1
temporary       == 2
bucket_guard    == 3

\* The outcomes of F on each outcome of SS that has not aborted
AndThen(SS, F(_)) == UNION { IF S.crash THEN { S } ELSE F(S) : S \in SS }

\* The destructor of a guard
DestroyGuard(S, g) ==
  { [D EXCEPT !.guards[g] = NoGuard] : D \in GuardDropImpl(S, g) }

\* guard.As<T>() and guard.AsMut<T>(): page_->GetData(), undefined on a
\* guard of a null page
AsPage(S, g) ==
  IF S.guards[g].page_ # NoFrame THEN { S }
  ELSE { S, [S EXCEPT !.crash = TRUE] }

\* this_guard = bpm_->FetchPageWrite(page_id), or with new_page
\* this_guard = bpm_->NewPageGuarded(&page_id).UpgradeWrite(); then AsMut.
\* UpgradeWrite constructs WritePageGuard(bpm_, page_) from the fields of
\* the basic guard.
ObtainWriteGuard(S, this_guard, page_id, new_page) ==
  LET declared == [S EXCEPT !.guards[this_guard] = InertGuard("write")]
      returned == IF new_page
                  THEN AndThen(NewPageGuarded(declared, temporary),
                               LAMBDA B : GuardOfNullPage(B, temporary, "write"))
                  ELSE FetchPageWrite(declared, temporary, page_id)
      assigned == AndThen(returned,
                          LAMBDA R : MoveAssignImpl(R, temporary, this_guard))
      destroyed == AndThen(assigned, LAMBDA A : DestroyGuard(A, temporary))
  IN  AndThen(destroyed, LAMBDA D : AsPage(D, this_guard))

\* The guards of one call from its first statement to its return
IndexGuards(S, directory_page_id, bucket_page_id, new_directory, new_bucket) ==
  LET directory == ObtainWriteGuard(S, directory_guard, directory_page_id,
                                    new_directory)
      bucket == AndThen(directory,
                        LAMBDA D : ObtainWriteGuard(D, bucket_guard,
                                                    bucket_page_id, new_bucket))
      returned == AndThen(bucket, LAMBDA B : DestroyGuard(B, bucket_guard))
  IN  AndThen(returned, LAMBDA R : DestroyGuard(R, directory_guard))

\* --------------------------------------------------------- DiskScheduler
nullopt ==
  [has_value |-> FALSE, id |-> 0, is_write_ |-> FALSE, page_id_ |-> INVALID_PAGE_ID]

DiskRequest(id, is_write, page_id) ==
  [has_value |-> TRUE, id |-> id, is_write_ |-> is_write, page_id_ |-> page_id]

\* Mutant: the channel hands out the newest element first
ChannelPut_Front(q, e) == <<e>> \o q

\* Channel::Put; Channel::Get takes the head
ChannelPut(q, e) == Append(q, e)

\* Mutant: the promise is never fulfilled
SetValue_Dropped(cb, id) == cb

\* request->callback_.set_value(true)
SetValue(cb, id) == [cb EXCEPT ![id] = @ + 1]

\* ------------------------------------------------- extendible hash index
\* The index over the pages it addresses.  A page obtained through a guard
\* is addressed by its page id; NewPageGuarded hands out the next page id.
\* The build decides what a failed BUSTUB_ASSERT does: it aborts where
\* assertions are compiled in and is skipped where they are not.  An
\* operator named ...Asserts tells whether the call's assertion fails.

\* Hash(key): the injected hash function, as an unsigned of HashWidth bits
Hash(key) == key % (2 ^ HashWidth)

\* x & (1 << n) and x | (1 << n) on unsigned integers
BitAnd(x, n) == ((x \div (2 ^ n)) % 2) * (2 ^ n)

BitOr(x, n) == IF (x \div (2 ^ n)) % 2 = 1 THEN x ELSE x + 2 ^ n

\* 1 << n on a 32-bit int is undefined for n >= 31; the processor shifts
\* by n mod 32.  A result stands beyond every array of a page.
ShiftUndefined(n) == n >= 31

ShiftCount(n) == IF n % 32 > 30 THEN 30 ELSE n % 32

\* -- ExtendibleHTableHeaderPage
HTABLE_HEADER_ARRAY_SIZE == 2 ^ HTABLE_HEADER_MAX_DEPTH

HeaderPageInit(max_depth) ==
  [max_depth_ |-> max_depth,
   directory_page_ids_ |->
     [i \in 0 .. (HTABLE_HEADER_ARRAY_SIZE - 1) |-> INVALID_PAGE_ID]]

HeaderPageInitAsserts(max_depth) == ~(max_depth > HTABLE_HEADER_MAX_DEPTH)

\* hash & (1 << max_depth_ - 1): the shift binds last, so the mask is the
\* single bit max_depth_ - 1; with max_depth_ = 0 the count is 2^32 - 1, and
\* a processor that shifts by the count modulo the width masks the top bit
HashToDirectoryIndex(H, hash) ==
  IF H.max_depth_ = 0 THEN BitAnd(hash, HashWidth - 1)
  ELSE BitAnd(hash, H.max_depth_ - 1)

HashToDirectoryIndexUndefined(H) == H.max_depth_ = 0

DirectoryPageIdAsserts(H, directory_idx) ==
  ~(directory_idx > 2 ^ H.max_depth_)

\* reads and writes outside directory_page_ids_ are undefined
DirectoryPageIdUndefined(H, directory_idx) ==
  directory_idx \notin DOMAIN H.directory_page_ids_

GetDirectoryPageId(H, directory_idx) ==
  IF DirectoryPageIdUndefined(H, directory_idx) THEN INVALID_PAGE_ID
  ELSE H.directory_page_ids_[directory_idx]

SetDirectoryPageId(H, directory_idx, directory_page_id) ==
  IF DirectoryPageIdUndefined(H, directory_idx) THEN H
  ELSE [H EXCEPT !.directory_page_ids_[directory_idx] = directory_page_id]

HeaderMaxSize(H) == 2 ^ H.max_depth_

\* A call on a header page: its argument, its result, and whether its
\* assertion failed or its behaviour was undefined
HeaderCall(op, arg, result, asserts, undefined) ==
  [op |-> op, arg |-> arg, result |-> result, asserts |-> asserts,
   undefined |-> undefined]

\* -- ExtendibleHTableDirectoryPage
HTABLE_DIRECTORY_ARRAY_SIZE == 2 ^ HTABLE_DIRECTORY_MAX_DEPTH

DirectorySlots == 0 .. (HTABLE_DIRECTORY_ARRAY_SIZE - 1)

DirectoryPageInit(max_depth) ==
  [max_depth_ |-> max_depth,
   global_depth_ |-> 0,
   local_depths_ |-> [i \in DirectorySlots |-> 0],
   bucket_page_ids_ |-> [i \in DirectorySlots |-> INVALID_PAGE_ID]]

HashToBucketIndex(D, hash) == hash % (2 ^ D.global_depth_)

DirectorySize(D) == 2 ^ D.global_depth_

\* the assertion of every accessor that takes a bucket_idx
BucketIdxAsserts(D, bucket_idx) == ~(bucket_idx < DirectorySize(D))

GetBucketPageId(D, bucket_idx) ==
  IF bucket_idx \in DirectorySlots THEN D.bucket_page_ids_[bucket_idx]
  ELSE INVALID_PAGE_ID

SetBucketPageId(D, bucket_idx, bucket_page_id) ==
  IF bucket_idx \in DirectorySlots
  THEN [D EXCEPT !.bucket_page_ids_[bucket_idx] = bucket_page_id]
  ELSE D

GetSplitImageIndex(D, bucket_idx) ==
  IF D.global_depth_ = 0 THEN 0
  ELSE IF (bucket_idx \div (2 ^ (D.global_depth_ - 1))) % 2 = 1
       THEN bucket_idx - 2 ^ (D.global_depth_ - 1)
       ELSE bucket_idx + 2 ^ (D.global_depth_ - 1)

GetGlobalDepth(D) == D.global_depth_

GetMaxDepth(D) == D.max_depth_

IncrGlobalDepthAsserts(D) == ~(D.global_depth_ < D.max_depth_)

IncrGlobalDepth(D) ==
  LET val == 2 ^ D.global_depth_
      Copied(a) == [i \in DirectorySlots |->
                      IF i >= val /\ i < 2 * val THEN a[i % val] ELSE a[i]]
  IN  [D EXCEPT !.global_depth_ = @ + 1,
                !.bucket_page_ids_ = Copied(@),
                !.local_depths_ = Copied(@)]

DecrGlobalDepth(D) == [D EXCEPT !.global_depth_ = @ - 1]

CanShrink(D) ==
  \A i \in 0 .. (DirectorySize(D) - 1) : D.local_depths_[i] # D.global_depth_

GetLocalDepth(D, bucket_idx) == D.local_depths_[bucket_idx]

\* bucket_idx | (1 << local depth)
GetSplitIndex(D, bucket_idx) ==
  BitOr(bucket_idx, ShiftCount(GetLocalDepth(D, bucket_idx)))

GetSplitIndexUndefined(D, bucket_idx) ==
  ShiftUndefined(GetLocalDepth(D, bucket_idx))

SetLocalDepth(D, bucket_idx, local_depth) ==
  [D EXCEPT !.local_depths_[bucket_idx] = local_depth]

IncrLocalDepthAsserts(D, bucket_idx) ==
  ~(D.local_depths_[bucket_idx] + 1 <= D.max_depth_)

\* local_depths_ is an array of uint8_t
IncrLocalDepth(D, bucket_idx) ==
  [D EXCEPT !.local_depths_[bucket_idx] = (@ + 1) % UINT8_SIZE]

DecrLocalDepthAsserts(D, bucket_idx) ==
  ~(D.local_depths_[bucket_idx] - 1 > 0)

DecrLocalDepth(D, bucket_idx) ==
  [D EXCEPT !.local_depths_[bucket_idx] = (@ + UINT8_SIZE - 1) % UINT8_SIZE]

\* -- ExtendibleHTableBucketPage: the packed array of (key, value) pairs,
\* -- keys unique
BucketPageInit(max_size) == [max_size_ |-> max_size, array_ |-> <<>>]

BucketSize(B) == Len(B.array_)

IsFull(B) == BucketSize(B) = B.max_size_

IsEmpty(B) == BucketSize(B) = 0

EntryAt(B, i) == B.array_[i + 1]

BucketKeys(B) == { B.array_[i][1] : i \in 1 .. Len(B.array_) }

BucketInsert(B, key, value) ==
  IF IsFull(B) \/ key \in BucketKeys(B) THEN B
  ELSE [B EXCEPT !.array_ = Append(@, <<key, value>>)]

RemoveAt(B, i) ==
  [B EXCEPT !.array_ = SubSeq(@, 1, i) \o SubSeq(@, i + 2, Len(@))]

BucketRemove(B, key) ==
  [B EXCEPT !.array_ = SelectSeq(@, LAMBDA kv : kv[1] # key)]

\* the values stored under key, in the order of the array
Lookup(B, key) ==
  LET hits == SelectSeq(B.array_, LAMBDA kv : kv[1] = key)
  IN  [i \in 1 .. Len(hits) |-> hits[i][2]]

\* -- DiskExtendibleHashTable
\* header_page_, the pages by page id, and the next page id of the pool
NewHashTable ==
  [header_page_ |-> HeaderPageInit(header_max_depth_),
   directories |-> <<>>,
   buckets |-> <<>>,
   next_page_id_ |-> 1]

\* An operation ends with the table T, its return value and, for GetValue,
\* the result vector; or in a crash
IndexOutcome(T, ok, result) ==
  [T |-> T, ok |-> ok, result |-> result, crash |-> FALSE]

IndexCrash(T) == [T |-> T, ok |-> FALSE, result |-> <<>>, crash |-> TRUE]

\* The outcomes of a run: the run itself, and a crash where an assertion
\* failed or the behaviour was undefined on the way
Outcomes(o, asserts, undefined) ==
  {o} \cup (IF asserts \/ undefined THEN {IndexCrash(o.T)} ELSE {})

GetValueImpl(T, key) ==
  LET hash == Hash(key)
      directory_idx == HashToDirectoryIndex(T.header_page_, hash)
      headerFault ==
        DirectoryPageIdAsserts(T.header_page_, directory_idx)
      headerUndefined ==
        \/ HashToDirectoryIndexUndefined(T.header_page_)
        \/ DirectoryPageIdUndefined(T.header_page_, directory_idx)
      directory_page_id == GetDirectoryPageId(T.header_page_, directory_idx)
  IN  IF directory_page_id = INVALID_PAGE_ID
      THEN Outcomes(IndexOutcome(T, FALSE, <<>>), headerFault, headerUndefined)
      ELSE
        LET directory == T.directories[directory_page_id]
            bucket_idx == HashToBucketIndex(directory, hash)
            bucket_page_id == GetBucketPageId(directory, bucket_idx)
        IN  IF bucket_page_id \notin DOMAIN T.buckets
            THEN { IndexCrash(T) }
            ELSE
              LET bucket == T.buckets[bucket_page_id]
                  result == Lookup(bucket, key)
              IN  Outcomes(IndexOutcome(T, Len(result) # 0, result),
                           headerFault \/ BucketIdxAsserts(directory, bucket_idx),
                           headerUndefined)

\* the loop of the split: entry i goes to the new bucket when it hashes to
\* new_bucket_idx, and i moves on in either case
RECURSIVE Redistribute(_, _, _, _, _)
Redistribute(bucket, new_bucket, directory, new_bucket_idx, i) ==
  IF ~(i < BucketSize(bucket))
  THEN [bucket |-> bucket, new_bucket |-> new_bucket]
  ELSE LET kv == EntryAt(bucket, i)
           verynew_bucket_idx == HashToBucketIndex(directory, Hash(kv[1]))
       IN  IF new_bucket_idx = verynew_bucket_idx
           THEN Redistribute(RemoveAt(bucket, i),
                             BucketInsert(new_bucket, kv[1], kv[2]),
                             directory, new_bucket_idx, i + 1)
           ELSE Redistribute(bucket, new_bucket, directory, new_bucket_idx,
                             i + 1)

RECURSIVE InsertImpl(_, _, _)
InsertImpl(T, key, value) ==
  LET hash == Hash(key)
      directory_idx == HashToDirectoryIndex(T.header_page_, hash)
      headerFault ==
        DirectoryPageIdAsserts(T.header_page_, directory_idx)
      headerUndefined ==
        \/ HashToDirectoryIndexUndefined(T.header_page_)
        \/ DirectoryPageIdUndefined(T.header_page_, directory_idx)
      found_page_id == GetDirectoryPageId(T.header_page_, directory_idx)
      \* the directory: fetched, or created and entered in the header
      directory_page_id ==
        IF found_page_id # INVALID_PAGE_ID THEN found_page_id
        ELSE T.next_page_id_
      T1 == IF found_page_id # INVALID_PAGE_ID THEN T
            ELSE [T EXCEPT
                    !.directories =
                       MapInsert(@, directory_page_id,
                                 DirectoryPageInit(directory_max_depth_)),
                    !.header_page_ =
                       SetDirectoryPageId(@, directory_idx, directory_page_id),
                    !.next_page_id_ = @ + 1]
      directory == T1.directories[directory_page_id]
      bucket_idx == HashToBucketIndex(directory, hash)
      slot_page_id == GetBucketPageId(directory, bucket_idx)
      \* the bucket: fetched, or created and entered in the directory
      bucket_page_id ==
        IF slot_page_id = INVALID_PAGE_ID THEN T1.next_page_id_
        ELSE slot_page_id
      T2 == IF slot_page_id # INVALID_PAGE_ID THEN T1
            ELSE [T1 EXCEPT
                    !.buckets =
                       MapInsert(@, bucket_page_id,
                                 BucketPageInit(bucket_max_size_)),
                    !.directories[directory_page_id] =
                       SetBucketPageId(@, bucket_idx, bucket_page_id),
                    !.next_page_id_ = @ + 1]
      Stored(T3, page_id) ==
        [T3 EXCEPT !.buckets[page_id] = BucketInsert(@, key, value)]
  IN  IF bucket_page_id \notin DOMAIN T2.buckets THEN { IndexCrash(T) }
      ELSE
      LET bucket == T2.buckets[bucket_page_id]
          directory2 == T2.directories[directory_page_id]
      IN
      IF IsFull(bucket) THEN
        LET new_bucket_idx == GetSplitIndex(directory2, bucket_idx)
            splitUndefined == GetSplitIndexUndefined(directory2, bucket_idx)
            inside == new_bucket_idx < DirectorySize(directory2)
        IN  IF ~inside /\ GetGlobalDepth(directory2) = GetMaxDepth(directory2)
            THEN Outcomes(IndexOutcome(T2, FALSE, <<>>), headerFault,
                          headerUndefined \/ splitUndefined)
            ELSE
              LET grown ==
                    IF inside
                    THEN IncrLocalDepth(IncrLocalDepth(directory2, bucket_idx),
                                        new_bucket_idx)
                    ELSE IncrGlobalDepth(IncrLocalDepth(directory2, bucket_idx))
                  depthFault ==
                    \/ IncrLocalDepthAsserts(directory2, bucket_idx)
                    \/ inside /\ IncrLocalDepthAsserts(
                                    IncrLocalDepth(directory2, bucket_idx),
                                    new_bucket_idx)
                    \/ ~inside /\ IncrGlobalDepthAsserts(
                                    IncrLocalDepth(directory2, bucket_idx))
                  new_bucket_page_id == T2.next_page_id_
                  installed ==
                    SetBucketPageId(grown, new_bucket_idx, new_bucket_page_id)
                  installFault == BucketIdxAsserts(grown, new_bucket_idx)
                  installUndefined == new_bucket_idx \notin DirectorySlots
                  moved == Redistribute(bucket,
                                        BucketPageInit(bucket_max_size_),
                                        installed, new_bucket_idx, 0)
                  T3 == [T2 EXCEPT
                           !.directories[directory_page_id] = installed,
                           !.buckets =
                              MapInsert([@ EXCEPT ![bucket_page_id] =
                                                     moved.bucket],
                                        new_bucket_page_id, moved.new_bucket),
                           !.next_page_id_ = @ + 1]
                  target ==
                    IF HashToBucketIndex(installed, hash) = new_bucket_idx
                    THEN new_bucket_page_id
                    ELSE bucket_page_id
              IN  Outcomes(IndexOutcome(Stored(T3, target), TRUE, <<>>),
                           headerFault \/ depthFault \/ installFault,
                           headerUndefined \/ splitUndefined
                             \/ installUndefined)
      ELSE
        \* the bucket is not full here, so the inner test never holds
        IF IsFull(bucket) THEN InsertImpl(T2, key, value)
        ELSE Outcomes(IndexOutcome(Stored(T2, bucket_page_id), TRUE, <<>>),
                      headerFault \/ BucketIdxAsserts(directory2, bucket_idx),
                      headerUndefined)

RemoveImpl(T, key) ==
  LET hash == Hash(key)
      directory_idx == HashToDirectoryIndex(T.header_page_, hash)
      headerFault ==
        DirectoryPageIdAsserts(T.header_page_, directory_idx)
      headerUndefined ==
        \/ HashToDirectoryIndexUndefined(T.header_page_)
        \/ DirectoryPageIdUndefined(T.header_page_, directory_idx)
      directory_page_id == GetDirectoryPageId(T.header_page_, directory_idx)
  IN  IF directory_page_id = INVALID_PAGE_ID
      THEN Outcomes(IndexOutcome(T, FALSE, <<>>), headerFault, headerUndefined)
      ELSE
        LET directory == T.directories[directory_page_id]
            bucket_idx == HashToBucketIndex(directory, hash)
            bucket_page_id == GetBucketPageId(directory, bucket_idx)
        IN  IF bucket_page_id \notin DOMAIN T.buckets
            THEN { IndexCrash(T) }
            ELSE
              LET bucket == T.buckets[bucket_page_id]
                  found == key \in BucketKeys(bucket)
                  removed == BucketRemove(bucket, key)
                  T1 == [T EXCEPT !.buckets[bucket_page_id] = removed]
                  val == 2 ^ (GetGlobalDepth(directory) - 1)
                  lower == bucket_idx % val
                  pointed == SetBucketPageId(directory, bucket_idx,
                                             GetBucketPageId(directory, lower))
                  once == DecrLocalDepth(pointed, bucket_idx)
                  twice == DecrLocalDepth(once, lower)
                  merged == IF CanShrink(twice) THEN DecrGlobalDepth(twice)
                            ELSE twice
                  mergeFault == \/ DecrLocalDepthAsserts(pointed, bucket_idx)
                                \/ DecrLocalDepthAsserts(once, lower)
                  single == SetLocalDepth(DecrGlobalDepth(directory), 0, 0)
                  directory1 ==
                    IF ~IsEmpty(removed) THEN directory
                    ELSE IF GetGlobalDepth(directory) > 1 THEN merged
                    ELSE IF GetGlobalDepth(directory) = 1 THEN single
                    ELSE directory
                  depthFault ==
                    IsEmpty(removed) /\ GetGlobalDepth(directory) > 1
                      /\ mergeFault
              IN  IF ~found
                  THEN Outcomes(IndexOutcome(T, FALSE, <<>>),
                                headerFault
                                  \/ BucketIdxAsserts(directory, bucket_idx),
                                headerUndefined)
                  ELSE Outcomes(
                         IndexOutcome(
                           [T1 EXCEPT !.directories[directory_page_id] =
                                         directory1],
                           TRUE, <<>>),
                         headerFault \/ depthFault
                           \/ BucketIdxAsserts(directory, bucket_idx),
                         headerUndefined)

\* ------------------------------------------------------- the two mutexes
\* BufferPoolManager::latch_ and LRUKReplacer::latch_, and the threads that
\* take them
Threads == 1 .. MaxThreads

PoolOperations ==
  {"NewPage", "FetchPage", "UnpinPage", "FlushPage", "FlushAllPages",
   "DeletePage"}

ReplacerCalls == {"Evict", "RecordAccess", "SetEvictable", "Remove"}

\* What the body of a pool operation does between taking and releasing the
\* pool's latch_, one sequence for each path through the code: the replacer
\* operations it calls, and "Schedule" for a request handed to the disk
\* scheduler followed by future.get().
PoolScripts(op) ==
  CASE op = "NewPage" ->
         { <<"RecordAccess">>,                       \* free frame
           <<"Evict">>,                              \* nothing to evict
           <<"Evict", "RecordAccess">>,              \* clean victim
           <<"Evict", "Schedule", "RecordAccess">> } \* dirty victim
    [] op = "FetchPage" ->
         { <<"RecordAccess">>,                       \* resident, or free
                                                     \* frame without read
           <<"Schedule", "RecordAccess">>,           \* free frame, read
           <<"Evict">> }                             \* nothing to evict
         \cup
         { <<"Evict">> \o write \o read \o <<"Schedule", "RecordAccess">> :
             write \in {<<>>, <<"Schedule">>},
             read \in {<<>>, <<"Schedule">>} }
    [] op = "UnpinPage" -> { <<>>, <<"SetEvictable">> }
    [] op = "FlushPage" -> { <<>>, <<"Schedule">> }
    [] op = "FlushAllPages" ->
         { [i \in 1 .. n |-> "Schedule"] : n \in 0 .. PoolSize }
    [] op = "DeletePage" -> { <<>>, <<"Remove">> }

NoThread == 0

NewMutexes ==
  [ pool      |-> NoThread,     \* the thread holding BufferPoolManager::latch_
    replacer  |-> NoThread,     \* the thread holding LRUKReplacer::latch_
    pc        |-> [t \in Threads |-> "idle"],
    op        |-> [t \in Threads |-> "none"],
    todo      |-> [t \in Threads |-> <<>>],
    requests  |-> <<>>,         \* the disk scheduler's queue: waiting threads
    fulfilled |-> {} ]          \* threads whose promise has its value

PoolLock(M, t) == [M EXCEPT !.pool = t]

PoolUnlock(M, t) == [M EXCEPT !.pool = NoThread]

ReplacerLock(M, t) == [M EXCEPT !.replacer = t]

\* Mutant: a replacer operation returns with the replacer's latch_ held
ReplacerUnlock_Held(M, t) == M

\* the unique_lock of a replacer operation goes out of scope
ReplacerUnlock(M, t) == [M EXCEPT !.replacer = NoThread]

\* ------------------------------------------------------------ the system
Call(op, o) ==
  [op |-> op, ok |-> o.ok, frame |-> o.frame, path |-> o.path,
   victim_pin |-> o.victim_pin]

NoOutcome == Outcome(<<>>, FALSE, TRUE, NoFrame, "none", NoFrame, 0)

Init ==
  /\ pages = NewPool([q \in PageIds |-> 0]).pages_
  /\ page_table = <<>>
  /\ free_list = [i \in 1 .. PoolSize |-> i - 1]
  /\ next_page_id = 0
  /\ replacer = NewReplacer
  /\ disk = [q \in PageIds |-> 0]
  /\ clock = 0
  /\ crashed = FALSE
  /\ restarts = 0
  /\ durable = {}
  /\ saved = [q \in PageIds |-> 0]
  /\ last = Call("Init", NoOutcome)
  /\ request_queue = <<>>
  /\ buffers = [i \in RequestIds |-> 0]
  /\ callbacks = [i \in RequestIds |-> 0]
  /\ worker = [pc |-> "get", request |-> nullopt]
  /\ enqueued = <<>>
  /\ performed = <<>>
  /\ destructor = "alive"
  /\ guards = [g \in GuardIds |-> NoGuard]
  /\ latch = [f \in Frames |-> [readers |-> 0, writer |-> FALSE]]
  /\ htable = NewHashTable
  /\ stored = {}
  /\ header_page = [initialised |-> FALSE, page |-> HeaderPageInit(0),
                    last |-> HeaderCall("none", 0, 0, FALSE, FALSE)]
  /\ mutexes = NewMutexes

\* The call op(page_id) ends with outcome o
Return(op, page_id, o) ==
  /\ last' = Call(op, o)
  /\ crashed' = o.crash
  /\ disk' = o.P.disk
  /\ IF o.crash
     THEN UNCHANGED <<pages, page_table, free_list, next_page_id, replacer>>
     ELSE /\ pages' = o.P.pages_
          /\ page_table' = o.P.page_table_
          /\ free_list' = o.P.free_list_
          /\ next_page_id' = o.P.next_page_id_
          /\ replacer' = o.P.replacer_
  /\ durable' = { q \in PageIds :
                     \/ /\ op = "FlushPage" /\ o.ok /\ q = page_id
                        /\ q < next_page_id /\ pages[o.frame].pin_count_ = 0
                        /\ o.P.disk[q] # 0
                     \/ q \in durable /\ o.P.disk[q] = disk[q] }
  /\ UNCHANGED restarts
  /\ UNCHANGED schedVars
  /\ UNCHANGED guardVars
  /\ UNCHANGED otherVars

\* The clock is read once per recorded access.  The pool's calls are taken
\* to be more than a microsecond apart, so every read is later than the
\* one before.
Ticks == { t \in {clock + 1} : t <= MaxTime }

NewPage ==
  /\ ~crashed
  /\ next_page_id < MaxPageId
  /\ \E t \in Ticks :
       /\ clock' = t
       /\ \E o \in NewPageImpl(PoolState, t) :
            Return("NewPage", next_page_id, o)

FetchPage ==
  /\ ~crashed
  /\ \E page_id \in PageIds, t \in Ticks :
       /\ clock' = t
       /\ \E o \in FetchPageImpl(PoolState, page_id, t) :
            Return("FetchPage", page_id, o)

UnpinPage ==
  /\ ~crashed
  /\ \E page_id \in PageIds, is_dirty \in BOOLEAN :
       \E o \in UnpinPageImpl(PoolState, page_id, is_dirty) :
         Return("UnpinPage", page_id, o)
  /\ UNCHANGED clock

FlushPage ==
  /\ ~crashed
  /\ \E page_id \in PageIds :
       \E o \in FlushPageImpl(PoolState, page_id) :
         Return("FlushPage", page_id, o)
  /\ UNCHANGED clock

FlushAllPages ==
  /\ ~crashed
  /\ \E o \in FlushAllPagesImpl(PoolState) :
       Return("FlushAllPages", INVALID_PAGE_ID, o)
  /\ UNCHANGED clock

DeletePage ==
  /\ ~crashed
  /\ \E page_id \in PageIds :
       \E o \in DeletePageImpl(PoolState, page_id) :
         Return("DeletePage", page_id, o)
  /\ UNCHANGED clock

WriteData ==
  /\ ~crashed
  /\ \E page_id \in DOMAIN page_table, d \in Data :
       /\ pages[page_table[page_id]].pin_count_ > 0
       /\ pages' = WriteDataImpl(PoolState, page_id, d).pages_
       /\ last' = Call("WriteData",
                       Outcome(<<>>, FALSE, TRUE, page_table[page_id], "hit", NoFrame, 0))
  /\ UNCHANGED <<page_table, free_list, next_page_id, replacer, disk,
                 clock, crashed, restarts, durable>>
  /\ UNCHANGED schedVars
  /\ UNCHANGED guardVars
  /\ UNCHANGED otherVars

\* The pool is destroyed (or the process has aborted) and a new pool is
\* constructed on the same disk manager.
Restart ==
  /\ restarts < MaxRestarts
  /\ restarts' = restarts + 1
  /\ pages' = NewPool(disk).pages_
  /\ page_table' = NewPool(disk).page_table_
  /\ free_list' = NewPool(disk).free_list_
  /\ next_page_id' = NewPool(disk).next_page_id_
  /\ replacer' = NewPool(disk).replacer_
  /\ crashed' = FALSE
  /\ last' = Call("Restart", NoOutcome)
  /\ UNCHANGED <<disk, clock, durable>>
  /\ UNCHANGED schedVars
  /\ UNCHANGED guardVars
  /\ UNCHANGED otherVars

\* Calls of the pool in any order, from any number of threads: the pool
\* mutex makes every call atomic.  The page buffers are left as the pool
\* fills them.
Next ==
  \/ NewPage /\ UNCHANGED saved
  \/ FetchPage /\ UNCHANGED saved
  \/ UnpinPage /\ UNCHANGED saved
  \/ FlushPage /\ UNCHANGED saved
  \/ FlushAllPages /\ UNCHANGED saved
  \/ DeletePage /\ UNCHANGED saved

Spec == Init /\ [][Next]_vars

\* The same calls with holders of pinned pages writing into the buffers
\* and with the pool destroyed and reopened on the same disk.
DiskNext ==
  \/ NewPage /\ clock' <= MaxDiskTime /\ UNCHANGED saved
  \/ FetchPage /\ clock' <= MaxDiskTime /\ UNCHANGED saved
  \/ UnpinPage /\ UNCHANGED saved
  \/ FlushPage /\ UNCHANGED saved
  \/ FlushAllPages /\ UNCHANGED saved
  \/ DeletePage /\ UNCHANGED saved
  \/ WriteData /\ UNCHANGED saved
  \/ Restart /\ UNCHANGED saved

DiskSpec == Init /\ [][DiskNext]_vars

\* The ghost saved over one call: an unpin that leaves the page dirty
\* records the content of the page; a delete of the page and a write into
\* it end the record.
Save ==
  saved' = [q \in PageIds |->
              IF crashed' THEN saved[q]
              ELSE IF /\ last'.op = "UnpinPage" /\ last'.ok
                      /\ q = pages[last'.frame].page_id_
              THEN IF pages'[last'.frame].is_dirty_
                   THEN pages'[last'.frame].data_ ELSE 0
              ELSE IF /\ \/ last'.op = "DeletePage" /\ last'.path = "hit"
                         \/ last'.op = "WriteData"
                      /\ q = pages[last'.frame].page_id_
              THEN 0
              ELSE saved[q]]

\* Allocation, fetch, unpin and delete with holders of pinned pages writing
\* into the buffers, long enough for a page to be evicted and fetched again.
EvictNext ==
  \/ NewPage /\ clock' <= MaxEvictTime /\ Save
  \/ FetchPage /\ clock' <= MaxEvictTime /\ Save
  \/ UnpinPage /\ Save
  \/ DeletePage /\ Save
  \/ WriteData /\ Save

EvictSpec == Init /\ [][EvictNext]_vars

\* ------------------------------------------------- the replacer by itself
\* Calls of the replacer's own interface in any order; the replacer latch
\* makes every call atomic.  Two accesses may fall in the same microsecond.
ReplacerCall(op, ok, frame) ==
  [op |-> op, ok |-> ok, frame |-> frame, path |-> "replacer", victim_pin |-> 0]

AccessTimes == { t \in {clock, clock + 1} : 1 <= t /\ t <= MaxTime }

\* The replacer call op(frame_id) ends with outcome o
ReplacerReturn(op, ok, frame_id, o) ==
  /\ last' = ReplacerCall(op, ok, frame_id)
  /\ crashed' = o.crash
  /\ replacer' = IF o.crash THEN replacer ELSE o.R
  /\ UNCHANGED <<pages, page_table, free_list, next_page_id, disk,
                 restarts, durable, saved>>
  /\ UNCHANGED schedVars
  /\ UNCHANGED guardVars
  /\ UNCHANGED otherVars

CallRecordAccess ==
  /\ ~crashed
  /\ \E frame_id \in Frames, t \in AccessTimes :
       /\ clock' = t
       /\ \E o \in RecordAccess(replacer, frame_id, t) :
            ReplacerReturn("RecordAccess", TRUE, frame_id, o)

CallSetEvictable ==
  /\ ~crashed
  /\ \E frame_id \in Frames, set_evictable \in BOOLEAN :
       \E o \in SetEvictable(replacer, frame_id, set_evictable) :
         ReplacerReturn("SetEvictable", set_evictable, frame_id, o)
  /\ UNCHANGED clock

CallEvict ==
  /\ ~crashed
  /\ replacer.curr_size_ > -MaxWrap
  /\ \E o \in Evict(replacer) :
       ReplacerReturn("Evict", o.ok, o.frame, o)
  /\ UNCHANGED clock

CallRemove ==
  /\ ~crashed
  /\ \E frame_id \in Frames :
       \E o \in Remove(replacer, frame_id) :
         ReplacerReturn("Remove", TRUE, frame_id, o)
  /\ UNCHANGED clock

ReplacerNext ==
  \/ CallRecordAccess
  \/ CallSetEvictable
  \/ CallEvict
  \/ CallRemove

ReplacerSpec == Init /\ [][ReplacerNext]_vars

\* ------------------------------------------- the disk scheduler by itself
\* Callers on any number of threads schedule requests; the background
\* thread takes them from the queue, performs the disk operation and
\* fulfils the promise, each as a step of its own.  A caller leaves its
\* buffer alone until its future is resolved.
notSched == <<pages, page_table, free_list, next_page_id, replacer,
              clock, crashed, restarts, durable, saved, last, guards, latch,
              htable, stored, header_page, mutexes>>

Schedule ==
  /\ destructor = "alive"
  /\ Len(enqueued) < MaxRequests
  /\ \E is_write \in BOOLEAN, page_id \in PageIds, d \in Data :
       LET r == DiskRequest(Len(enqueued) + 1, is_write, page_id)
       IN  /\ is_write \/ d = 0
           /\ request_queue' = ChannelPut(request_queue, r)
           /\ buffers' = [buffers EXCEPT ![r.id] = d]
           /\ enqueued' = Append(enqueued, r)
  /\ UNCHANGED <<disk, callbacks, worker, performed, destructor>>
  /\ UNCHANGED notSched

\* request_queue_.Get() blocks while the queue is empty
WorkerGet ==
  /\ worker.pc = "get"
  /\ request_queue # <<>>
  /\ worker' = [pc |-> IF Head(request_queue).has_value THEN "io" ELSE "exit",
                request |-> Head(request_queue)]
  /\ request_queue' = Tail(request_queue)
  /\ UNCHANGED <<disk, buffers, callbacks, enqueued, performed, destructor>>
  /\ UNCHANGED notSched

WorkerIO ==
  /\ worker.pc = "io"
  /\ LET request == worker.request
     IN  IF request.is_write_
         THEN /\ disk' = [disk EXCEPT ![request.page_id_] = buffers[request.id]]
              /\ UNCHANGED buffers
         ELSE /\ buffers' = [buffers EXCEPT ![request.id] = disk[request.page_id_]]
              /\ UNCHANGED disk
  /\ performed' = Append(performed, worker.request)
  /\ worker' = [worker EXCEPT !.pc = "set"]
  /\ UNCHANGED <<request_queue, callbacks, enqueued, destructor>>
  /\ UNCHANGED notSched

WorkerSet ==
  /\ worker.pc = "set"
  /\ callbacks' = SetValue(callbacks, worker.request.id)
  /\ worker' = [worker EXCEPT !.pc = "get"]
  /\ UNCHANGED <<disk, request_queue, buffers, enqueued, performed, destructor>>
  /\ UNCHANGED notSched

\* ~DiskScheduler puts the sentinel and goes on to join the thread
Destroy ==
  /\ destructor = "alive"
  /\ request_queue' = ChannelPut(request_queue, nullopt)
  /\ destructor' = "joining"
  /\ UNCHANGED <<disk, buffers, callbacks, worker, enqueued, performed>>
  /\ UNCHANGED notSched

\* background_thread_->join() returns once the thread has left its loop
Join ==
  /\ destructor = "joining"
  /\ worker.pc = "exit"
  /\ destructor' = "returned"
  /\ UNCHANGED <<disk, request_queue, buffers, callbacks, worker, enqueued,
                 performed>>
  /\ UNCHANGED notSched

Worker == WorkerGet \/ WorkerIO \/ WorkerSet

SchedNext ==
  \/ Schedule
  \/ WorkerGet
  \/ WorkerIO
  \/ WorkerSet
  \/ Destroy
  \/ Join

SchedSpec == Init /\ [][SchedNext]_vars

\* The background thread is scheduled fairly, and join returns when the
\* thread has ended.
LiveSchedSpec ==
  Init /\ [][SchedNext]_vars /\ WF_vars(Worker) /\ WF_vars(Join)

\* ----------------------------------------------------- guards on the pool
\* Threads allocate pages, wrap them in guards, move the guards and drop
\* them.
notGuard == <<restarts, durable, saved, last, request_queue, buffers,
              callbacks, worker, enqueued, performed, destructor,
              htable, stored, header_page, mutexes>>

\* The guards, the latches and the pool as one value
GuardState ==
  [guards |-> guards, latch |-> latch, P |-> PoolState, crash |-> FALSE]

\* The guard call ends in state S
GuardReturn(S) ==
  /\ crashed' = S.crash
  /\ disk' = S.P.disk
  /\ IF S.crash
     THEN UNCHANGED <<pages, page_table, free_list, next_page_id, replacer,
                      guards, latch>>
     ELSE /\ pages' = S.P.pages_
          /\ page_table' = S.P.page_table_
          /\ free_list' = S.P.free_list_
          /\ next_page_id' = S.P.next_page_id_
          /\ replacer' = S.P.replacer_
          /\ guards' = S.guards
          /\ latch' = S.latch
  /\ UNCHANGED notGuard

\* NewPage and the construction of a guard on the page; the latch is
\* taken when no holder excludes it
GuardNewPage ==
  /\ ~crashed
  /\ next_page_id < MaxPageId
  /\ \E g \in GuardIds, kind \in {"basic", "read", "write"}, t \in Ticks :
       /\ guards[g].kind = "none"
       /\ clock' = t
       /\ \E o \in NewPageImpl(PoolState, t) :
            /\ o.crash \/ o.frame # NoFrame
            /\ o.crash \/ kind = "basic" \/ ~latch[o.frame].writer
            /\ o.crash \/ kind # "write" \/ latch[o.frame].readers = 0
            /\ GuardReturn(IF o.crash THEN [GuardState EXCEPT !.crash = TRUE]
                           ELSE ConstructGuard([GuardState EXCEPT !.P = o.P],
                                               g, kind, o.frame))

GuardMoveConstruct ==
  /\ ~crashed
  /\ \E that, this \in GuardIds :
       /\ guards[that].kind # "none"
       /\ guards[this].kind = "none"
       /\ \E S \in MoveConstructImpl(GuardState, that, this) : GuardReturn(S)
  /\ UNCHANGED clock

GuardMoveAssign ==
  /\ ~crashed
  /\ \E that, this \in GuardIds :
       /\ guards[that].kind # "none"
       /\ guards[this].kind = guards[that].kind
       /\ \E S \in MoveAssignImpl(GuardState, that, this) : GuardReturn(S)
  /\ UNCHANGED clock

GuardDrop ==
  /\ ~crashed
  /\ \E g \in GuardIds :
       /\ guards[g].kind # "none"
       /\ \E S \in GuardDropImpl(GuardState, g) : GuardReturn(S)
  /\ UNCHANGED clock

\* The destructor drops the guard and ends the object
GuardDestroy ==
  /\ ~crashed
  /\ \E g \in GuardIds :
       /\ guards[g].kind # "none"
       /\ \E S \in GuardDropImpl(GuardState, g) :
            GuardReturn([S EXCEPT !.guards[g] = NoGuard])
  /\ UNCHANGED clock

\* An upgrade of a live basic guard; the latch is taken when no holder
\* excludes it
GuardUpgrade ==
  /\ ~crashed
  /\ \E g, result \in GuardIds, kind \in {"read", "write"} :
       /\ guards[g].kind = "basic" /\ Holds(guards[g])
       /\ guards[result].kind = "none"
       /\ ~latch[guards[g].page_].writer
       /\ kind = "write" => latch[guards[g].page_].readers = 0
       /\ \E S \in UpgradeImpl(GuardState, g, kind, result) : GuardReturn(S)
  /\ UNCHANGED clock

\* A thread asks the pool for a guarded page
GuardedFetch ==
  /\ ~crashed
  /\ \E g \in GuardIds, page_id \in PageIds :
       /\ guards[g].kind = "none"
       /\ \E S \in FetchPageBasic(GuardState, g, page_id)
                  \cup FetchPageRead(GuardState, g, page_id)
                  \cup FetchPageWrite(GuardState, g, page_id) :
            GuardReturn(S)
  /\ UNCHANGED clock

GuardedNewPage ==
  /\ ~crashed
  /\ \E g \in GuardIds :
       /\ guards[g].kind = "none"
       /\ \E S \in NewPageGuarded(GuardState, g) : GuardReturn(S)
  /\ UNCHANGED clock

\* An index operation on a directory page and a bucket page, with no other
\* guard alive in the thread
IndexOperation ==
  /\ ~crashed
  /\ \A g \in GuardIds : guards[g].kind = "none"
  /\ \E directory_page_id, bucket_page_id \in PageIds,
        new_directory, new_bucket \in BOOLEAN :
       \E S \in IndexGuards(GuardState, directory_page_id, bucket_page_id,
                            new_directory, new_bucket) :
         GuardReturn(S)
  /\ UNCHANGED clock

GuardNext ==
  \/ GuardNewPage
  \/ IndexOperation
  \/ GuardedFetch
  \/ GuardedNewPage
  \/ GuardMoveConstruct
  \/ GuardMoveAssign
  \/ GuardUpgrade
  \/ GuardDrop
  \/ GuardDestroy

GuardSpec == Init /\ [][GuardNext]_vars

\* ------------------------------------------------------ the index by itself
\* One thread inserts, looks up and removes keys.
notIndex == <<pages, page_table, free_list, next_page_id, replacer, disk,
              clock, restarts, durable, saved, last, request_queue, buffers,
              callbacks, worker, enqueued, performed, destructor, guards,
              latch, header_page, mutexes>>

IndexReturn(op, key, value, o) ==
  /\ crashed' = o.crash
  /\ htable' = IF o.crash THEN htable ELSE o.T
  /\ stored' =
       IF o.crash THEN stored
       ELSE IF op = "Insert" /\ o.ok THEN stored \cup {<<key, value>>}
       ELSE IF op = "Remove" /\ o.ok
            THEN { kv \in stored : kv[1] # key }
       ELSE stored
  /\ UNCHANGED notIndex

\* a local depth below 0 is a large uint8_t
WrapBounded ==
  \A d \in DOMAIN htable.directories, i \in DirectorySlots :
    LET local_depth == htable.directories[d].local_depths_[i]
    IN  \/ local_depth < UINT8_SIZE \div 2
        \/ local_depth >= UINT8_SIZE - MaxDepthWrap

Insert ==
  /\ ~crashed
  /\ WrapBounded
  /\ htable.next_page_id_ < MaxIndexPages
  /\ \E key \in Keys, value \in Values :
       \E o \in InsertImpl(htable, key, value) :
         IndexReturn("Insert", key, value, o)

GetValue ==
  /\ ~crashed
  /\ WrapBounded
  /\ \E key \in Keys :
       \E o \in GetValueImpl(htable, key) :
         IndexReturn("GetValue", key, 0, o)

IndexRemove ==
  /\ ~crashed
  /\ WrapBounded
  /\ \E key \in Keys :
       \E o \in RemoveImpl(htable, key) :
         IndexReturn("Remove", key, 0, o)

IndexNext ==
  \/ Insert
  \/ GetValue
  \/ IndexRemove

IndexSpec == Init /\ [][IndexNext]_vars

\* ------------------------------------------------ a header page by itself
\* A header page is initialised with some max depth and then asked for
\* directory indexes and directory page ids.
notHeader == <<pages, page_table, free_list, next_page_id, replacer, disk,
               clock, restarts, durable, saved, last, request_queue, buffers,
               callbacks, worker, enqueued, performed, destructor, guards,
               latch, htable, stored, mutexes>>

Hashes == 0 .. (2 ^ HashWidth - 1)

\* The call ends with header page H; where its assertion failed or its
\* behaviour was undefined it may also end the process
HeaderReturn(H, call) ==
  /\ header_page' = [initialised |-> TRUE, page |-> H, last |-> call]
  /\ crashed' \in (IF call.asserts \/ call.undefined THEN BOOLEAN ELSE {FALSE})
  /\ UNCHANGED notHeader

CallHeaderInit ==
  /\ ~crashed
  /\ ~header_page.initialised
  /\ \E max_depth \in 0 .. HTABLE_HEADER_MAX_DEPTH :
       HeaderReturn(HeaderPageInit(max_depth),
                    HeaderCall("Init", max_depth, 0,
                               HeaderPageInitAsserts(max_depth), FALSE))

CallHashToDirectoryIndex ==
  /\ ~crashed
  /\ header_page.initialised
  /\ \E hash \in Hashes :
       HeaderReturn(header_page.page,
                    HeaderCall("HashToDirectoryIndex", hash,
                               HashToDirectoryIndex(header_page.page, hash),
                               FALSE,
                               HashToDirectoryIndexUndefined(header_page.page)))

CallGetDirectoryPageId ==
  /\ ~crashed
  /\ header_page.initialised
  /\ \E directory_idx \in 0 .. HTABLE_HEADER_ARRAY_SIZE :
       HeaderReturn(header_page.page,
                    HeaderCall("GetDirectoryPageId", directory_idx,
                               GetDirectoryPageId(header_page.page, directory_idx),
                               DirectoryPageIdAsserts(header_page.page,
                                                      directory_idx),
                               DirectoryPageIdUndefined(header_page.page,
                                                        directory_idx)))

CallSetDirectoryPageId ==
  /\ ~crashed
  /\ header_page.initialised
  /\ Cardinality({ i \in DOMAIN header_page.page.directory_page_ids_ :
                     header_page.page.directory_page_ids_[i] # INVALID_PAGE_ID })
       < MaxDirectories
  /\ \E directory_idx \in 0 .. HTABLE_HEADER_ARRAY_SIZE :
       HeaderReturn(SetDirectoryPageId(header_page.page, directory_idx, 1),
                    HeaderCall("SetDirectoryPageId", directory_idx, 0,
                               DirectoryPageIdAsserts(header_page.page,
                                                      directory_idx),
                               DirectoryPageIdUndefined(header_page.page,
                                                        directory_idx)))

HeaderNext ==
  \/ CallHeaderInit
  \/ CallHashToDirectoryIndex
  \/ CallGetDirectoryPageId
  \/ CallSetDirectoryPageId

HeaderSpec == Init /\ [][HeaderNext]_vars

\* ------------------------------------------------ threads on the two mutexes
\* Threads call the pool's operations at the same time.  Each operation takes
\* the pool's latch_ for its whole body (std::unique_lock, released at every
\* return), calls into the replacer, whose operations take the replacer's
\* latch_ for their body, and waits for the disk scheduler's background
\* thread with the pool's latch_ held.  The branch an operation takes depends
\* on the pool's state; here every branch of the code may be taken.
notLock == <<pages, page_table, free_list, next_page_id, replacer, disk,
             clock, crashed, restarts, durable, saved, last,
             request_queue, buffers, callbacks, worker, enqueued, performed,
             destructor, guards, latch, htable, stored, header_page>>

\* A thread calls a pool operation and reaches its first statement
ThreadCall(t, op) ==
  /\ mutexes.pc[t] = "idle"
  /\ mutexes' = [mutexes EXCEPT !.pc[t] = "lock_pool", !.op[t] = op]
  /\ UNCHANGED notLock

\* std::unique_lock<std::mutex> lk(latch_) of the pool
LockPoolLatch(t) ==
  /\ mutexes.pc[t] = "lock_pool"
  /\ mutexes.pool = NoThread
  /\ \E script \in PoolScripts(mutexes.op[t]) :
       mutexes' = [PoolLock(mutexes, t) EXCEPT !.pc[t] = "body",
                                               !.todo[t] = script]
  /\ UNCHANGED notLock

\* The body reaches a call of the replacer, or hands a request to the disk
\* scheduler and waits for its future
BodyStep(t) ==
  /\ mutexes.pc[t] = "body"
  /\ mutexes.todo[t] # <<>>
  /\ IF Head(mutexes.todo[t]) \in ReplacerCalls
       THEN mutexes' = [mutexes EXCEPT !.pc[t] = "lock_replacer"]
       ELSE mutexes' = [mutexes EXCEPT !.pc[t] = "future",
                                       !.requests = Append(@, t)]
  /\ UNCHANGED notLock

\* std::unique_lock<std::mutex> lk(latch_) of the replacer
LockReplacerLatch(t) ==
  /\ mutexes.pc[t] = "lock_replacer"
  /\ mutexes.replacer = NoThread
  /\ mutexes' = [ReplacerLock(mutexes, t) EXCEPT !.pc[t] = "replacer"]
  /\ UNCHANGED notLock

\* The replacer operation returns into the pool operation
ReplacerCallReturn(t) ==
  /\ mutexes.pc[t] = "replacer"
  /\ mutexes' = [ReplacerUnlock(mutexes, t) EXCEPT
                   !.pc[t] = "body", !.todo[t] = Tail(@)]
  /\ UNCHANGED notLock

\* The disk scheduler's background thread performs the request at the head
\* of its queue and sets the promise; it takes neither mutex
DiskWorker ==
  /\ mutexes.requests # <<>>
  /\ mutexes' = [mutexes EXCEPT
                   !.requests = Tail(@),
                   !.fulfilled = @ \cup {Head(mutexes.requests)}]
  /\ UNCHANGED notLock

\* future1.get() returns
FutureGet(t) ==
  /\ mutexes.pc[t] = "future"
  /\ t \in mutexes.fulfilled
  /\ mutexes' = [mutexes EXCEPT !.pc[t] = "body", !.todo[t] = Tail(@),
                                !.fulfilled = @ \ {t}]
  /\ UNCHANGED notLock

\* The pool operation returns; its unique_lock goes out of scope
PoolReturn(t) ==
  /\ mutexes.pc[t] = "body"
  /\ mutexes.todo[t] = <<>>
  /\ mutexes' = [PoolUnlock(mutexes, t) EXCEPT !.pc[t] = "idle",
                                               !.op[t] = "none"]
  /\ UNCHANGED notLock

LockNext ==
  \/ \E t \in Threads, op \in PoolOperations : ThreadCall(t, op)
  \/ \E t \in Threads : LockPoolLatch(t)
  \/ \E t \in Threads : BodyStep(t)
  \/ \E t \in Threads : LockReplacerLatch(t)
  \/ \E t \in Threads : ReplacerCallReturn(t)
  \/ DiskWorker
  \/ \E t \in Threads : FutureGet(t)
  \/ \E t \in Threads : PoolReturn(t)

LockSpec == Init /\ [][LockNext]_vars

\* Fair scheduling: a thread that can go on does go on, the background
\* thread of the disk scheduler runs, and a thread that is able to take a
\* mutex again and again does take it.  Nothing obliges a thread to call.
LiveLockSpec ==
  /\ Init /\ [][LockNext]_vars
  /\ WF_vars(DiskWorker)
  /\ \A t \in Threads :
       /\ SF_vars(LockPoolLatch(t))
       /\ SF_vars(LockReplacerLatch(t))
       /\ WF_vars(BodyStep(t))
       /\ WF_vars(ReplacerCallReturn(t))
       /\ WF_vars(FutureGet(t))
       /\ WF_vars(PoolReturn(t))

\* ----------------------------------------------------------- properties
Resident == Range(page_table)

Evictable == replacer.replacer_

\* C1: FetchPage of a resident page returns the page's frame, raises that
\* frame's pin count by exactly one and records one access, and leaves the
\* frame not evictable.
C1_FetchResidentPins ==
  [][ (last'.op = "FetchPage" /\ last'.path = "hit") =>
        LET f == last'.frame
        IN  /\ f \in Resident
            /\ pages'[f].page_id_ = pages[f].page_id_
            /\ pages'[f].pin_count_ = pages[f].pin_count_ + 1
            /\ replacer'.node_store_[f].history_ # replacer.node_store_[f].history_
            /\ f \notin replacer'.replacer_ ]_vars

\* C2: the frame NewPage or FetchPage takes as eviction victim never holds
\* a page whose pin count is greater than 0, and with every frame holding a
\* pinned page NewPage returns null.
C2_VictimNotPinned ==
  /\ [](last.path = "evict" => last.victim_pin = 0)
  /\ [][ ( /\ last'.op = "NewPage"
           /\ \A f \in Frames : f \in Resident /\ pages[f].pin_count_ > 0 )
         => last'.frame = NoFrame ]_vars

\* C3: every page id in the page table maps to one frame, no two page ids
\* map to the same frame, and the mapped frame stores the page id it is
\* mapped from.
C3_PageTableBijection ==
  /\ \A p \in DOMAIN page_table :
       /\ page_table[p] \in Frames
       /\ pages[page_table[p]].page_id_ = p
  /\ \A p, q \in DOMAIN page_table :
       p # q => page_table[p] # page_table[q]

\* A frame was evicted and reassigned while the other frame stayed mapped
C3_Witness ==
  /\ last.path = "evict"
  /\ Cardinality(DOMAIN page_table) = PoolSize
  /\ page_table[pages[last.frame].page_id_] = last.frame

\* C4: every frame is in exactly one of the free list and the page table,
\* once, so pool_size = |free_list| + |page_table|.
C4_FreeOrMapped ==
  /\ \A f \in Frames : (f \in SeqToSet(free_list)) # (f \in Resident)
  /\ \A i, j \in 1 .. Len(free_list) : i # j => free_list[i] # free_list[j]
  /\ PoolSize = Len(free_list) + Cardinality(DOMAIN page_table)

\* C5: every pin count is >= 0, and a frame that holds a resident page is
\* in the replacer's evictable set exactly when its pin count is 0.
C5_EvictableIffUnpinned ==
  \A f \in Frames :
    /\ pages[f].pin_count_ >= 0
    /\ f \in Resident =>
         /\ (f \in Evictable) <=> (pages[f].pin_count_ = 0)
         /\ replacer.node_store_[f].is_evictable_ <=> (pages[f].pin_count_ = 0)

\* One resident frame is pinned and the other was unpinned and is evictable
C5_Witness ==
  /\ last.op = "UnpinPage" /\ last.ok
  /\ last.frame \in Evictable
  /\ \E f \in Resident : pages[f].pin_count_ > 0 /\ f \notin Evictable

\* C6: NewPage, and FetchPage of a page that is not resident, return null
\* exactly when the free list is empty and no frame is evictable.
C6_NullIffNoFrame ==
  [][ (last'.op \in {"NewPage", "FetchPage"} /\ last'.path # "hit") =>
        ( (last'.frame = NoFrame) <=> (free_list = <<>> /\ Evictable = {}) ) ]_vars

\* C7: UnpinPage(p, d) returns false and changes nothing when p is not
\* resident or its pin count is 0; otherwise it returns true, lowers the
\* pin count by exactly one and the frame is evictable afterwards exactly
\* when the pin count has reached 0.
C7_UnpinContract ==
  \A p \in PageIds, d \in BOOLEAN :
    \A o \in UnpinPageImpl(PoolState, p, d) :
      IF p \notin DOMAIN page_table \/ pages[page_table[p]].pin_count_ = 0
      THEN ~o.crash /\ ~o.ok /\ o.P = PoolState
      ELSE LET f == page_table[p]
           IN  /\ ~o.crash /\ o.ok
               /\ o.P.pages_[f].pin_count_ = pages[f].pin_count_ - 1
               /\ (f \in o.P.replacer_.replacer_) <=> (o.P.pages_[f].pin_count_ = 0)
               /\ \A g \in Frames \ {f} :
                    (g \in o.P.replacer_.replacer_) <=> (g \in Evictable)

\* An unpin has returned true and made its frame evictable, and an unpin
\* of that page now would return false
C7_Witness ==
  /\ last.op = "UnpinPage" /\ last.ok
  /\ pages[last.frame].pin_count_ = 0
  /\ last.frame \in Evictable
  /\ last.frame \in Resident

\* C8: a dirty flag stays set until the page is flushed, evicted or
\* deleted: no UnpinPage (whatever its is_dirty) and no FetchPage of the
\* page clears it.
C8_DirtySticky ==
  [][ \A f \in Frames :
        (f \in Resident /\ pages[f].is_dirty_ /\ ~pages'[f].is_dirty_) =>
          \/ last'.op = "FlushAllPages"
          \/ last'.op \in {"FlushPage", "DeletePage"} /\ last'.frame = f
          \/ last'.path = "evict" /\ last'.frame = f ]_vars

\* An unpin of a dirty page has failed on its pin count of 0, or a fetch
\* has found the dirty page resident, and the page is still dirty
C8_Witness ==
  /\ \/ last.op = "UnpinPage" /\ last.path = "unpinned"
     \/ last.op = "FetchPage" /\ last.path = "hit"
  /\ pages[last.frame].is_dirty_

\* C9: FlushPage(p) returns false and changes nothing when p is not
\* resident; when p is resident it returns true, the disk copy of p equals
\* the frame's content whether or not the page was dirty, the dirty flag is
\* clear, and the content, pin counts, page table, free list and replacer
\* are as before.
C9_FlushContract ==
  \A p \in PageIds :
    \A o \in FlushPageImpl(PoolState, p) :
      IF p \notin DOMAIN page_table
      THEN ~o.crash /\ ~o.ok /\ o.P = PoolState
      ELSE LET f == page_table[p]
           IN  /\ ~o.crash /\ o.ok
               /\ o.P.disk[p] = pages[f].data_
               /\ \A q \in PageIds \ {p} : o.P.disk[q] = disk[q]
               /\ ~o.P.pages_[f].is_dirty_
               /\ o.P.pages_ = [pages EXCEPT ![f].is_dirty_ = FALSE]
               /\ o.P.page_table_ = page_table
               /\ o.P.free_list_ = free_list
               /\ o.P.next_page_id_ = next_page_id
               /\ o.P.replacer_ = replacer

\* A flush has written a pattern of a page that was not dirty
C9_Witness ==
  /\ last.op = "FlushPage" /\ last.ok
  /\ pages[last.frame].data_ # 0
  /\ disk[pages[last.frame].page_id_] = pages[last.frame].data_
  /\ pages[last.frame].pin_count_ > 0

\* C10: a page allocated by NewPage, written, unpinned dirty and flushed is
\* read back with the flushed content by FetchPage after the pool has been
\* destroyed and a new pool opened on the same disk.
C10_FlushDurableAcrossRestart ==
  ( /\ restarts > 0
    /\ last.op = "FetchPage"
    /\ last.path \in {"free", "evict"}
    /\ pages[last.frame].page_id_ \in durable )
  => pages[last.frame].data_ = disk[pages[last.frame].page_id_]

\* C11: a page that was unpinned dirty and later evicted is returned by the
\* next FetchPage of it with the content it had when it was last unpinned.
C11_DirtyEvictionRoundTrip ==
  ( /\ last.op = "FetchPage"
    /\ last.path \in {"free", "evict"}
    /\ saved[pages[last.frame].page_id_] # 0 )
  => pages[last.frame].data_ = saved[pages[last.frame].page_id_]

\* C12: DeletePage(p) of a page that is not resident returns true and
\* changes nothing, so repeating it changes nothing either; DeletePage(p)
\* of a resident page with pin count > 0 returns false and leaves the page
\* table, the free list, the frames and the replacer as they were.
C12_DeleteNoOp ==
  \A p \in PageIds :
    \A o \in DeletePageImpl(PoolState, p) :
      /\ p \notin DOMAIN page_table =>
           /\ ~o.crash /\ o.ok /\ o.P = PoolState
           /\ \A o2 \in DeletePageImpl(o.P, p) :
                ~o2.crash /\ o2.ok /\ o2.P = PoolState
      /\ (p \in DOMAIN page_table /\ pages[page_table[p]].pin_count_ > 0) =>
           ~o.crash /\ ~o.ok /\ o.P = PoolState

\* A delete of a pinned page has returned false while the other frame is
\* free again after a delete that went through
C12_Witness ==
  /\ last.op = "DeletePage" /\ last.path = "pinned" /\ ~last.ok
  /\ pages[last.frame].pin_count_ > 0
  /\ last.frame \in Resident
  /\ Len(free_list) > 0
  /\ Cardinality(DOMAIN page_table) < next_page_id

\* C13: DeletePage(p) of a resident page with pin count 0 returns true, and
\* afterwards p is not in the page table, its frame is the last entry of
\* the free list with pin count 0 and dirty flag clear, the frame is in
\* neither evictable set of the replacer, and Size() is smaller by one.
C13_DeleteContract ==
  \A p \in DOMAIN page_table :
    pages[page_table[p]].pin_count_ = 0 =>
      \A o \in DeletePageImpl(PoolState, p) :
        LET f == page_table[p]
        IN  /\ ~o.crash /\ o.ok
            /\ p \notin DOMAIN o.P.page_table_
            /\ Len(o.P.free_list_) > 0
            /\ o.P.free_list_[Len(o.P.free_list_)] = f
            /\ o.P.pages_[f].pin_count_ = 0
            /\ ~o.P.pages_[f].is_dirty_
            /\ f \notin o.P.replacer_.replacer_
            /\ f \notin o.P.replacer_.inf_replacer_
            /\ Size(o.P.replacer_) = Size(replacer) - 1

\* The frames whose evictable flag is set
EvictableFrames(R) ==
  { f \in DOMAIN R.node_store_ : R.node_store_[f].is_evictable_ }

\* C14: Evict returns the evictable frame of greatest K-distance: when some
\* evictable frame has fewer than K accesses, the one of them with the
\* oldest earliest access; otherwise the evictable frame whose K-th most
\* recent access is oldest.
C14_EvictGreatestKDistance ==
  LET R == replacer
      \* the oldest access a frame still records: its earliest access when
      \* it has fewer than K, its K-th most recent access when it has K
      OldestAccess(f) == IF Len(R.node_store_[f].history_) = 0 THEN 0
                         ELSE Head(R.node_store_[f].history_)
      underK == { f \in EvictableFrames(R) : Len(R.node_store_[f].history_) < K }
      among == IF underK # {} THEN underK ELSE EvictableFrames(R)
      GreatestKDistance ==
        { f \in among : \A g \in among : OldestAccess(f) <= OldestAccess(g) }
  IN  \A o \in Evict(R) :
        /\ ~o.crash
        /\ o.ok <=> EvictableFrames(R) # {}
        /\ o.ok => o.frame \in GreatestKDistance

\* C15: Size() equals the number of frames whose evictable flag is set, and
\* SetEvictable(f, v) changes it by +1 or -1 when it changes the flag of f
\* and by 0 when the flag already equals v.
C15_SizeCountsEvictable ==
  /\ Size(replacer) = Cardinality(EvictableFrames(replacer))
  /\ \A f \in DOMAIN replacer.node_store_, v \in BOOLEAN :
       \A o \in SetEvictable(replacer, f, v) :
         /\ ~o.crash
         /\ o.R.node_store_[f].is_evictable_ = v
         /\ Size(o.R) - Size(replacer) =
              IF replacer.node_store_[f].is_evictable_ = v THEN 0
              ELSE IF v THEN 1 ELSE -1

\* C16: after Evict has returned frame f, and after Remove(f) of an
\* evictable f, the frame is untracked: its history is empty, it is not
\* evictable and it is in neither candidate set; and Evict returns no frame
\* that has not been accessed and made evictable since.  This holds for
\* every frame id, frame 0 included.
C16_FrameUntracked ==
  LET Untracked(R, f) ==
        /\ R.node_store_[f].history_ = <<>>
        /\ ~R.node_store_[f].is_evictable_
        /\ f \notin R.replacer_
        /\ f \notin R.inf_replacer_
  IN  /\ \A f \in EvictableFrames(replacer) :
           \A o \in Remove(replacer, f) : ~o.crash /\ Untracked(o.R, f)
      /\ \A o \in Evict(replacer) :
           /\ ~o.crash
           /\ o.ok => /\ replacer.node_store_[o.frame].is_evictable_
                       /\ Untracked(o.R, o.frame)

\* C17: SetEvictable(f, true) of a frame that is already evictable, and
\* SetEvictable(f, false) of a frame that is not evictable, abort the
\* process.
C17_SetEvictableAsserts ==
  \A f \in DOMAIN replacer.node_store_ :
    \A o \in SetEvictable(replacer, f, replacer.node_store_[f].is_evictable_) :
      o.crash

\* C18: the worker performs the requests in the order Schedule enqueued
\* them; when it performs a request, the future of every request enqueued
\* before it is resolved; and a read of page p returns what the last write
\* to p enqueued before it has written.
C18_EnqueueOrder ==
  /\ Len(performed) <= Len(enqueued)
  /\ \A i \in 1 .. Len(performed) :
       /\ performed[i] = enqueued[i]
       /\ \A j \in 1 .. (i - 1) : callbacks[enqueued[j].id] = 1
       /\ ~enqueued[i].is_write_ =>
            LET writes == { j \in 1 .. (i - 1) :
                              /\ enqueued[j].is_write_
                              /\ enqueued[j].page_id_ = enqueued[i].page_id_ }
            IN  buffers[enqueued[i].id] =
                  IF writes = {} THEN 0
                  ELSE buffers[enqueued[CHOOSE j \in writes :
                                          \A k \in writes : k <= j].id]

\* A read enqueued after two writes of different patterns to its page has
\* been performed and has returned the pattern of the later write
C18_Witness ==
  /\ Len(performed) = 3
  /\ enqueued[1].is_write_ /\ enqueued[2].is_write_ /\ ~enqueued[3].is_write_
  /\ enqueued[1].page_id_ = enqueued[3].page_id_
  /\ enqueued[2].page_id_ = enqueued[3].page_id_
  /\ buffers[1] = 0 /\ buffers[2] = 1 /\ buffers[3] = 1

\* C19: with the worker thread scheduled fairly, every request enqueued
\* before the destruction is performed once and its future is resolved to
\* true once; the worker ends only when every request enqueued before the
\* sentinel is complete, and the destructor then returns.
C19_DrainAndShutdown ==
  /\ [](\A id \in RequestIds :
          /\ callbacks[id] <= 1
          /\ Cardinality({ i \in 1 .. Len(performed) : performed[i].id = id }) <= 1)
  /\ \A id \in RequestIds :
       [](Len(enqueued) >= id =>
            <>(callbacks[id] = 1 /\ \E i \in 1 .. Len(performed) : performed[i].id = id))
  /\ [](worker.pc = "exit" =>
          \A id \in 1 .. Len(enqueued) : callbacks[id] = 1)
  /\ [](destructor = "joining" => <>(destructor = "returned"))

\* The destructor has returned after the worker drained requests that were
\* still queued when the sentinel was put
C19_Witness ==
  /\ destructor = "returned"
  /\ Len(enqueued) = MaxRequests
  /\ \A id \in RequestIds : callbacks[id] = 1

\* C20: a move of a guard of any kind, by construction or by assignment,
\* leaves the destination holding the page and the source inert, with the
\* pin count and the latch of the page as before; dropping the destination
\* then unpins the page once and releases the latch.
C20_MoveTransfersOwnership ==
  \A that, this \in GuardIds :
    (that # this /\ Holds(guards[that])) =>
      LET f == guards[that].page_
          kind == guards[that].kind
          Transferred(m) ==
            /\ ~m.crash
            /\ m.guards[this] = guards[that]
            /\ m.guards[that] = InertGuard(kind)
            /\ m.P.pages_[f].pin_count_ = pages[f].pin_count_
            /\ m.latch[f] = latch[f]
            /\ \A o \in GuardDropImpl(m, this) :
                 /\ ~o.crash
                 /\ ~Holds(o.guards[this])
                 /\ o.P.pages_[f].pin_count_ = pages[f].pin_count_ - 1
                 /\ o.latch[f] =
                      IF kind = "read" THEN RUnlatch(latch, f)[f]
                      ELSE IF kind = "write" THEN WUnlatch(latch, f)[f]
                      ELSE latch[f]
      IN  /\ guards[this].kind = "none" =>
               \A m \in MoveConstructImpl(GuardState, that, this) : Transferred(m)
          /\ (guards[this].kind = kind /\ guards[this].page_ # f) =>
               \A m \in MoveAssignImpl(GuardState, that, this) : Transferred(m)

\* C21: every pin taken for a guard is released by one UnpinPage and every
\* latch by one unlatch: the pin count of a frame is the number of guards
\* that hold it, its latch has as many readers as read guards hold it and a
\* writer exactly when a write guard holds it, so with all guards gone the
\* pin count is back at 0 and no latch is held; and Drop of an inert guard
\* releases nothing.
C21_PinsAndLatchesPaired ==
  LET Holders(f, kinds) ==
        { g \in GuardIds : /\ Holds(guards[g])
                           /\ guards[g].page_ = f
                           /\ guards[g].kind \in kinds }
  IN  /\ \A f \in Frames :
           /\ pages[f].pin_count_ =
                Cardinality(Holders(f, {"basic", "read", "write"}))
           /\ latch[f].readers = Cardinality(Holders(f, {"read"}))
           /\ latch[f].writer <=> Holders(f, {"write"}) # {}
      /\ \A g \in GuardIds :
           (guards[g].kind # "none" /\ ~Holds(guards[g])) =>
             GuardDropImpl(GuardState, g) = { GuardState }

\* C22: UpgradeRead and UpgradeWrite of a live basic guard return a read or
\* write guard that holds the same page with the shared or exclusive latch
\* taken, leave the pin count of the page as it was, and leave the basic
\* guard inert, so that its Drop does not unpin.
C22_UpgradeTransfersPin ==
  \A g, result \in GuardIds, kind \in {"read", "write"} :
    ( /\ guards[g].kind = "basic" /\ Holds(guards[g])
      /\ guards[result].kind = "none"
      /\ ~latch[guards[g].page_].writer
      /\ kind = "write" => latch[guards[g].page_].readers = 0 )
    => \A u \in UpgradeImpl(GuardState, g, kind, result) :
         LET f == guards[g].page_
         IN  /\ ~u.crash
             /\ u.guards[result].kind = kind
             /\ Holds(u.guards[result])
             /\ u.guards[result].page_ = f
             /\ u.latch[f] = IF kind = "read" THEN RLatch(latch, f)[f]
                              ELSE WLatch(latch, f)[f]
             /\ u.P.pages_[f].pin_count_ = pages[f].pin_count_
             /\ u.guards[g] = InertGuard("basic")
             /\ GuardDropImpl(u, g) = { u }

\* The directory of key in table T, when there is one, and key's slot in it
DirectoryOf(T, key) ==
  GetDirectoryPageId(T.header_page_,
                     HashToDirectoryIndex(T.header_page_, Hash(key)))

SlotOf(T, key) == HashToBucketIndex(T.directories[DirectoryOf(T, key)], Hash(key))

BucketOf(T, key) ==
  T.buckets[GetBucketPageId(T.directories[DirectoryOf(T, key)], SlotOf(T, key))]

\* C23: every key whose Insert returned true and that was not removed since
\* is returned with its value by GetValue, after any sequence of Insert and
\* Remove calls; Insert returns true only when the pair is stored, also when
\* the bucket is still full after one split.  Stated for the calls that run
\* to their end.
C23_InsertRoundTrip ==
  \A kv \in stored :
    \A o \in GetValueImpl(htable, kv[1]) :
      ~o.crash => o.ok /\ kv[2] \in Range(o.result)

\* C24: after Remove(k) returned true GetValue(k) returns false with no
\* values, and Remove(k) returns false when k's directory does not exist or
\* k is not in its bucket.  Stated for the calls that run to their end.
C24_RemoveThenAbsent ==
  \A key \in Keys :
    \A o \in RemoveImpl(htable, key) :
      ~o.crash =>
        /\ o.ok => \A g \in GetValueImpl(o.T, key) :
                     ~g.crash => ~g.ok /\ g.result = <<>>
        /\ ( \/ DirectoryOf(htable, key) = INVALID_PAGE_ID
             \/ key \notin BucketKeys(BucketOf(htable, key)) ) => ~o.ok

\* C25: in every directory, every slot below 2^G has a local depth of at
\* most G, two slots with the same bucket page have the same local depth,
\* and two slots with the same local depth that agree on that many low
\* bits have the same bucket page.
C25_DirectoryInvariant ==
  \A d \in DOMAIN htable.directories :
    LET D == htable.directories[d]
        slots == 0 .. (DirectorySize(D) - 1)
    IN  /\ \A i \in slots : D.local_depths_[i] <= D.global_depth_
        /\ \A i, j \in slots :
             D.bucket_page_ids_[i] = D.bucket_page_ids_[j]
               => D.local_depths_[i] = D.local_depths_[j]
        /\ \A i, j \in slots :
             ( /\ D.local_depths_[i] = D.local_depths_[j]
               /\ D.local_depths_[i] <= D.global_depth_
               /\ i % (2 ^ D.local_depths_[i]) = j % (2 ^ D.local_depths_[i]) )
               => D.bucket_page_ids_[i] = D.bucket_page_ids_[j]

\* key's bucket is full, its local depth is the global depth and the global
\* depth is the directory's max depth
DirectoryFull(T, key) ==
  /\ DirectoryOf(T, key) # INVALID_PAGE_ID
  /\ LET D == T.directories[DirectoryOf(T, key)]
     IN  /\ IsFull(BucketOf(T, key))
         /\ D.local_depths_[SlotOf(T, key)] = D.global_depth_
         /\ D.global_depth_ = D.max_depth_

\* C26: Insert into a full bucket whose local depth is the global depth,
\* with the global depth at the directory's max depth, returns false and
\* leaves the directory and every bucket as they were; Insert returns false
\* in no other case.  Stated for the calls that run to their end.
C26_DirectoryFullOnly ==
  \A key \in Keys, value \in Values :
    \A o \in InsertImpl(htable, key, value) :
      ~o.crash =>
        /\ DirectoryFull(htable, key) => ~o.ok /\ o.T = htable
        /\ ~o.ok => DirectoryFull(htable, key)

\* i XOR 2^(d-1)
SplitImage(i, d) ==
  IF (i \div (2 ^ (d - 1))) % 2 = 1 THEN i - 2 ^ (d - 1) ELSE i + 2 ^ (d - 1)

\* C28: when Remove empties a bucket of local depth d > 0 whose split image
\* has local depth d too, both slots then reference the image's bucket
\* page, both local depths are d - 1, the emptied page is gone from the
\* pool, and the global depth is lowered until some slot has it as local
\* depth; when the image's local depth differs nothing is merged.
C28_MergeOnRemove ==
  \A key \in Keys :
    \A o \in RemoveImpl(htable, key) :
      ( /\ ~o.crash /\ o.ok
        /\ IsEmpty(BucketOf(o.T, key)) \/ IsEmpty(o.T.buckets[
             GetBucketPageId(htable.directories[DirectoryOf(htable, key)],
                             SlotOf(htable, key))]) )
      => LET p == DirectoryOf(htable, key)
             D == htable.directories[p]
             E == o.T.directories[p]
             i == SlotOf(htable, key)
             d == D.local_depths_[i]
             emptied == D.bucket_page_ids_[i]
         IN  d > 0 /\ d <= D.global_depth_ =>
               LET image == SplitImage(i, d)
               IN  IF D.local_depths_[image] = d
                   THEN /\ E.bucket_page_ids_[i] = D.bucket_page_ids_[image]
                        /\ E.bucket_page_ids_[image] = D.bucket_page_ids_[image]
                        /\ E.local_depths_[i] = d - 1
                        /\ E.local_depths_[image] = d - 1
                        /\ emptied \notin DOMAIN o.T.buckets
                        /\ \/ E.global_depth_ = 0
                           \/ ~CanShrink(E)
                   ELSE /\ E = D
                        /\ DOMAIN o.T.buckets = DOMAIN htable.buckets

\* the top n bits of a hash of HashWidth bits
TopBits(hash, n) == hash \div (2 ^ (HashWidth - n))

\* C27: HashToDirectoryIndex(h) is the value of the top max_depth bits of h,
\* and GetDirectoryPageId and SetDirectoryPageId accept exactly the indexes
\* 0 .. 2^max_depth - 1.
C27_HeaderIndexing ==
  LET call == header_page.last
      max_depth == header_page.page.max_depth_
  IN  /\ call.op = "HashToDirectoryIndex"
           => call.result = TopBits(call.arg, max_depth)
      /\ call.op \in {"GetDirectoryPageId", "SetDirectoryPageId"}
           => (~call.asserts /\ ~call.undefined
                 <=> call.arg \in 0 .. (2 ^ max_depth - 1))

\* t waits for a mutex that u holds
WaitsFor(t, u) ==
  \/ mutexes.pc[t] = "lock_pool" /\ mutexes.pool = u
  \/ mutexes.pc[t] = "lock_replacer" /\ mutexes.replacer = u

\* t can take its next step
CanStep(t) ==
  \/ mutexes.pc[t] \in {"body", "replacer"}
  \/ mutexes.pc[t] = "lock_pool" /\ mutexes.pool = NoThread
  \/ mutexes.pc[t] = "lock_replacer" /\ mutexes.replacer = NoThread
  \/ mutexes.pc[t] = "future" /\ t \in mutexes.fulfilled

\* The replacer's mutex is taken and held only by the thread that holds the
\* pool's mutex
PoolThenReplacer ==
  \A t \in Threads :
    (mutexes.replacer = t \/ mutexes.pc[t] \in {"lock_replacer", "replacer"})
      => mutexes.pool = t /\ mutexes.pc[t] # "lock_pool"

\* No thread waits for a mutex it holds, no two threads wait for each other,
\* and while a call is under way some thread or the background thread can
\* take a step
NoMutexDeadlock ==
  /\ \A t, u \in Threads : ~(WaitsFor(t, u) /\ WaitsFor(u, t))
  /\ (\E t \in Threads : mutexes.pc[t] # "idle")
       => \/ \E t \in Threads : CanStep(t)
          \/ mutexes.requests # <<>>

FreshFrame(P, o, page_id) ==
  LET f == o.frame
  IN  /\ f \in Frames
      /\ o.path \in {"free", "evict"}
      /\ o.P.pages_[f].page_id_ = page_id
      /\ o.P.pages_[f].pin_count_ = 1
      /\ ~o.P.pages_[f].is_dirty_
      /\ (o.path = "evict" /\ P.pages_[f].page_id_ # page_id)
           => P.pages_[f].page_id_ \notin DOMAIN o.P.page_table_

C31_NullLeavesPool ==
  \A t \in Ticks :
    /\ \A o \in NewPageImpl(PoolState, t) :
         (~o.crash /\ ~o.ok) => o.P = PoolState
    /\ \A page_id \in PageIds :
         \A o \in FetchPageImpl(PoolState, page_id, t) :
           (~o.crash /\ ~o.ok) => o.P = PoolState

\* C31 witness: the last call was a NewPage or FetchPage that returned null,
\* with every frame holding a page and a page id still to hand out
C31_Witness ==
  /\ last.op \in {"NewPage", "FetchPage"}
  /\ last.path = "null"
  /\ free_list = <<>>
  /\ next_page_id < MaxPageId

\* The guard g of S is live on a frame that holds page_id, pinned, with the
\* latch of its kind taken
LiveGuardOn(S, g, kind, page_id) ==
  /\ ~S.crash
  /\ S.guards[g].kind = kind
  /\ Holds(S.guards[g])
  /\ LET f == S.guards[g].page_
     IN  /\ S.P.pages_[f].page_id_ = page_id
         /\ page_id \in DOMAIN S.P.page_table_
         /\ S.P.pages_[f].pin_count_ >= 1
         /\ kind = "read" => S.latch[f].readers >= 1
         /\ kind = "write" => S.latch[f].writer

\* A frame can be had for a page: it is resident, or a frame is free or
\* evictable
FrameFor(page_id) ==
  \/ page_id \in DOMAIN page_table
  \/ Len(free_list) > 0
  \/ replacer.replacer_ # {}

\* C32: FetchPageBasic, FetchPageRead, FetchPageWrite and NewPageGuarded
\* return, whenever a frame can be obtained, a live guard that holds the
\* requested or newly allocated page pinned, with the shared or exclusive
\* latch taken for the read and write flavours.
C32_GuardedAccessors ==
  \A g \in GuardIds :
    guards[g].kind = "none" =>
      /\ \A page_id \in PageIds :
           FrameFor(page_id) =>
             /\ \A S \in FetchPageBasic(GuardState, g, page_id) :
                  LiveGuardOn(S, g, "basic", page_id)
             /\ \A S \in FetchPageRead(GuardState, g, page_id) :
                  LiveGuardOn(S, g, "read", page_id)
             /\ \A S \in FetchPageWrite(GuardState, g, page_id) :
                  LiveGuardOn(S, g, "write", page_id)
      /\ (Len(free_list) > 0 \/ replacer.replacer_ # {}) =>
           \A S \in NewPageGuarded(GuardState, g) :
             LiveGuardOn(S, g, "basic", next_page_id)

Occurrences(B, key) ==
  Cardinality({ i \in 1 .. Len(B.array_) : B.array_[i][1] = key })

\* C34: when Insert splits a full bucket, afterwards every entry that was
\* in the old bucket is in exactly one of the old and the new bucket (none
\* lost, none duplicated), and it is in the new bucket if and only if the
\* low new-local-depth bits of its hash equal those of split_idx: no entry
\* is skipped while entries are removed from the old bucket during the scan.
\* Stated for the calls that run to their end.
C34_SplitRedistribution ==
  \A key \in Keys, value \in Values :
    ( /\ DirectoryOf(htable, key) # INVALID_PAGE_ID
      /\ GetBucketPageId(htable.directories[DirectoryOf(htable, key)],
                         SlotOf(htable, key)) \in DOMAIN htable.buckets
      /\ IsFull(BucketOf(htable, key))
      /\ ~DirectoryFull(htable, key) )
    => \A o \in InsertImpl(htable, key, value) :
         (~o.crash /\ o.ok) =>
           LET D == htable.directories[DirectoryOf(htable, key)]
               bucket_idx == SlotOf(htable, key)
               split_idx == GetSplitIndex(D, bucket_idx)
               depth == GetLocalDepth(D, bucket_idx) + 1
               old == o.T.buckets[GetBucketPageId(D, bucket_idx)]
               new == o.T.buckets[htable.next_page_id_]
           IN  \A k \in BucketKeys(BucketOf(htable, key)) \ {key} :
                 /\ Occurrences(old, k) + Occurrences(new, k) = 1
                 /\ Occurrences(new, k) = 1
                      <=> Hash(k) % (2 ^ depth) = split_idx % (2 ^ depth)

\* C35: after any sequence of Insert and Remove calls each directory's
\* global depth G is within 0 .. max depth and every local depth is within
\* 0 .. G (DecrGlobalDepth is not applied at G = 0 nor DecrLocalDepth at
\* local depth 0, so nothing wraps around), and when the global depth is
\* incremented every new slot i in [2^G, 2^(G+1)) receives the bucket page
\* id and the local depth of slot i - 2^G.
C35_DepthsInRange ==
  \A d \in DOMAIN htable.directories :
    LET D == htable.directories[d]
        G == D.global_depth_
    IN  /\ 0 <= G /\ G <= D.max_depth_
        /\ \A i \in 0 .. (DirectorySize(D) - 1) :
             0 <= D.local_depths_[i] /\ D.local_depths_[i] <= G
        /\ G < D.max_depth_ =>
             \A i \in (2 ^ G) .. (2 ^ (G + 1) - 1) :
               /\ IncrGlobalDepth(D).bucket_page_ids_[i]
                    = D.bucket_page_ids_[i - 2 ^ G]
               /\ IncrGlobalDepth(D).local_depths_[i]
                    = D.local_depths_[i - 2 ^ G]

\* C36: Remove(k) affects only k: every other key that GetValue found before
\* Remove(k) is found with the same values after it, also when Remove
\* empties a bucket and merges it or shrinks the directory from global depth
\* 1 to 0.  Stated for the calls that run to their end.
C36_RemoveAffectsOnlyKey ==
  \A key \in Keys :
    \A other \in Keys \ {key} :
      \A before \in GetValueImpl(htable, other) :
        (~before.crash /\ before.ok) =>
          \A o \in RemoveImpl(htable, key) :
            ~o.crash =>
              \A after \in GetValueImpl(o.T, other) :
                ~after.crash =>
                  after.ok /\ after.result = before.result

\* C37: every frame in the free list has pin count 0, is not dirty, has
\* zeroed content, and is in neither of the replacer's evictable sets.
C37_FreeFramesClean ==
  \A i \in DOMAIN free_list :
    LET f == free_list[i]
    IN  /\ pages[f].pin_count_ = 0
        /\ ~pages[f].is_dirty_
        /\ pages[f].data_ = 0
        /\ f \notin replacer.replacer_
        /\ f \notin replacer.inf_replacer_

\* C38: in the replacer, curr_size_ is the number of frames in the evictable
\* set replacer_, inf_replacer_ is a subset of replacer_, and inf_replacer_
\* holds exactly the evictable frames with fewer than K recorded accesses.
C38_ReplacerSets ==
  /\ replacer.curr_size_ = Cardinality(replacer.replacer_)
  /\ replacer.inf_replacer_ \subseteq replacer.replacer_
  /\ replacer.inf_replacer_ =
       { f \in replacer.replacer_ : Len(replacer.node_store_[f].history_) < K }

====
